---- MODULE Spec2Model ----
(***************************************************************************)
(* Model of AutoModeService (apps/server/src/services/auto-mode-service):   *)
(* the dependency-aware task scheduler, the RunningFeature registry with    *)
(* its entry points, and the plan-approval waiters.                         *)
(*                                                                          *)
(* JavaScript runs one synchronous section at a time: every action below    *)
(* starts at a suspension point of the code (an await, a timer, an API      *)
(* call) and runs to the next suspension point.                             *)
(***************************************************************************)
EXTENDS Integers, Sequences, FiniteSets, TLC

None == "none"

(***************************************************************************)
(* PART 1 - executeTasksWithDependencies                                    *)
(***************************************************************************)

DEFAULT_MAX_TASK_CONCURRENCY == 3
MAX_TASK_CONCURRENCY_CAP == 8

\* Largest configured settings.maxConcurrency the model draws.
MaxConfigured == 9

\* settings?.maxConcurrency when the setting is absent (undefined).
NotConfigured == -1

\* The id a task list may name without containing it.
MissingId == "T999"

\* Task lists as parseTasksFromSpec returns them: ids in document order and
\* each task's dependsOn.
NoDeps == [t \in {"T001", "T002", "T003"} |-> {}]

TaskLists ==
    { [name |-> "fanout", order |-> <<"T001", "T002", "T003">>,
        dependsOn |-> [NoDeps EXCEPT !["T002"] = {"T001"}, !["T003"] = {"T001"}]],
      [name |-> "cycle", order |-> <<"T001", "T002">>,
        dependsOn |-> [NoDeps EXCEPT !["T001"] = {"T002"}, !["T002"] = {"T001"}]],
      [name |-> "independent", order |-> <<"T001", "T002", "T003">>,
        dependsOn |-> NoDeps],
      [name |-> "chain", order |-> <<"T001", "T002", "T003">>,
        dependsOn |-> [NoDeps EXCEPT !["T002"] = {"T001"}, !["T003"] = {"T002"}]],
      [name |-> "missing", order |-> <<"T001", "T002">>,
        dependsOn |-> [NoDeps EXCEPT !["T002"] = {MissingId}]],
      [name |-> "missing_with_dependent", order |-> <<"T001", "T002", "T003">>,
        dependsOn |-> [NoDeps EXCEPT !["T002"] = {MissingId}, !["T003"] = {"T002"}]] }

VARIABLES
    tasks,                \* options.tasks: the task list being scheduled
    settingsMaxConcurrency, \* settings?.maxConcurrency (NotConfigured: undefined)
    maxTaskConcurrency,   \* the cap computed at entry (0 before)
    status,               \* task.status of every task
    readyQueue,           \* readyQueue
    inFlight,             \* keys of the inFlight map: agent calls not yet settled
    hadFailure,           \* hadFailure
    spc,                  \* the scheduler's suspension point
    nextTask,             \* the task scheduleTask is persisting
    aborted,              \* options.abortController.signal.aborted
    outcome,              \* how the scheduler ended
    callResult,           \* what each task's agent call settled with
    featureStatus,        \* the feature's persisted status
    runNext               \* what executeFeature did after the scheduler ended

schedVars == <<tasks, settingsMaxConcurrency, maxTaskConcurrency, status, readyQueue,
               inFlight, hadFailure, spc, nextTask, aborted, outcome, callResult,
               featureStatus, runNext>>

\* How many invocations of the service's entry points, and how many
\* resolvePlanApproval requests, are under way at once at most.
MaxCalls == 2
MaxResolvers == 1
Calls == 1..MaxCalls

\* No call: an absent map entry (Map.get(...) === undefined).
NoCall == 0

\* A promise a resolvePlanApproval request looked up that has settled since.
Settled == -1
Resolvers == 1..MaxResolvers

\* The feature the invocations are about.
Features == {"f1"}

VARIABLES
    runningFeatures,      \* this.runningFeatures: featureId -> the call whose entry it holds
    cpc,                  \* each call's suspension point
    ckind,                \* the entry point each call came in by
    cfeature,             \* each call's featureId
    cAborted,             \* each call's abortController.signal.aborted
    cresult,              \* the error each call is unwinding with, or was refused with
    contextExists,        \* whether the feature's agent-output.md exists
    fstatus,              \* feature.status as persisted in feature.json
    pendingApprovals,     \* this.pendingApprovals: featureId -> the call whose waiter it holds
    wstate,               \* the promise each call's waitForPlanApproval returned
    wtimer,               \* the 30 minute timers of the waiters: each call's timer
                          \* (st) and the armed ones, oldest first (q)
    rpc,                  \* each resolvePlanApproval request's suspension point
    rfeature,             \* its featureId
    rtarget               \* the waiter it looked up (const pending = ...get(featureId))

lifeVars == <<runningFeatures, cpc, ckind, cfeature, cAborted, cresult, contextExists,
              fstatus, pendingApprovals, wstate, wtimer, rpc, rfeature, rtarget>>

VARIABLES
    run,                  \* one orchestration run followed phase by phase: its feature's
                          \* settings and persisted status, its local variables, what it emitted
    consecutiveFailures,  \* this.consecutiveFailures.length
    pausedDueToFailures   \* this.pausedDueToFailures

runVars == <<run, consecutiveFailures, pausedDueToFailures>>

LoopFeatures == {"f1", "f2"}
MaxLoops == 2
MaxGaps == 1
MaxConcurrency == 1

VARIABLES
    autoLoopRunning,          \* this.autoLoopRunning
    autoLoopAbortController,  \* this.autoLoopAbortController is not null
    maxConcurrency,           \* this.config.maxConcurrency, 0 while this.config is null
    sleeping,                 \* the invocations of runAutoLoop at the loop head or in a sleep
    loading,                  \* the invocations of runAutoLoop awaiting loadPendingFeatures
    staleSleeping,            \* the same, of the invocations made before the last startAutoLoop
    staleLoading,
    executionState,           \* the execution state file exists on disk
    runningFeatureIds,        \* runningFeatureIds of the execution state file
    savesInFlight,            \* a saveExecutionState nobody waits for is before its writeFile
    clearsInFlight,           \* a clearExecutionState nobody waits for is before its unlink
    stopPc,                   \* the user's stopAutoLoop: clearing, or stopped with no start since
    reg,                      \* where the run registered in this.runningFeatures stands
    gaps,                     \* the runs of each feature that are in resumeFeature, unregistered
    lfstatus,                 \* feature.json status of each feature
    lfoutput,                 \* agent-output.md exists for each feature
    atRestart,                \* status and output of each feature when the process started
    resumePc,                 \* where resumeInterruptedFeatures stands
    resumeQueue,              \* its interruptedFeatures still to resume
    withContext,              \* the features a run was started for with a continuation prompt
    failuresInRow,            \* feature failures since the last success or loop start
    pausedEmitted             \* auto_mode_paused_failures was emitted since the loop start

loopVars == <<autoLoopRunning, autoLoopAbortController, maxConcurrency, sleeping, loading,
              staleSleeping, staleLoading,
              executionState, runningFeatureIds,
              savesInFlight, clearsInFlight, stopPc, reg, gaps,
              lfstatus, lfoutput, atRestart, resumePc, resumeQueue, withContext,
              failuresInRow, pausedEmitted>>

MaxWriters == 2

VARIABLES
    psVersion,    \* planSpec.taskStateVersion in feature.json
    psUpdates,    \* the writers whose update the planSpec in feature.json contains
    upc,          \* where each call of updatePlanSpecWithRetry stands
    uread,        \* the planSpec each call has read
    uattempt,     \* attempt
    ureturn,      \* what each call returned
    statusWriter, \* updateFeatureStatus: where it stands and the feature it has read
    planContent,  \* planSpec.content in feature.json
    planVersion,  \* planSpec.version in feature.json (0: no planSpec yet)
    planTasks,    \* planSpec.tasks in feature.json
    agent         \* runAgent in its plan approval loop: its local variables

planVars == <<psVersion, psUpdates, upc, uread, uattempt, ureturn, statusWriter,
              planContent, planVersion, planTasks, agent>>

\* How many feature runs record metrics at once at most.
MaxRuns == 2

VARIABLES
    metricsByProject, \* the runs of the store cached in this.metricsByProject (runIds)
    runStatus,        \* status of each run's record, an object the store copies share
    metricsFile,      \* auto-mode-metrics.json: the status of each run it holds
    mpc,              \* where each feature run stands with its MetricsRun
    mupdated          \* the runs of the store each updateMetricsStore call is saving

metricsVars == <<metricsByProject, runStatus, metricsFile, mpc, mupdated>>

vars == <<schedVars, lifeVars, runVars, loopVars, planVars, metricsVars>>

\* No feature run has opened a MetricsRun; the store is loaded and empty.
NoMetricsRun ==
    /\ metricsByProject = {}
    /\ runStatus = [r \in 1..MaxRuns |-> "none"]
    /\ metricsFile = [r \in 1..MaxRuns |-> "none"]
    /\ mpc = [r \in 1..MaxRuns |-> "idle"]
    /\ mupdated = [r \in 1..MaxRuns |-> {}]

\* undefined where a plan text is expected; JSON.stringify drops such a key,
\* so a content of undefined is a planSpec without content.
Undefined == <<>>

\* No planSpec is being updated.
NoPlanSpecUpdate ==
    /\ psVersion = 0
    /\ psUpdates = {}
    /\ upc = [w \in 1..MaxWriters |-> "idle"]
    /\ uread = [w \in 1..MaxWriters |-> [taskStateVersion |-> 0, updates |-> {}]]
    /\ uattempt = [w \in 1..MaxWriters |-> 0]
    /\ ureturn = [w \in 1..MaxWriters |-> "none"]
    /\ statusWriter = [pc |-> "idle", taskStateVersion |-> 0, updates |-> {}]
    /\ planContent = Undefined
    /\ planVersion = 0
    /\ planTasks = <<>>
    /\ agent = [pc |-> "idle", currentPlanContent |-> Undefined,
                approvedPlanContent |-> Undefined, parsedTasks |-> <<>>, planVersion |-> 0,
                approved |-> FALSE, editedPlan |-> Undefined, feedback |-> FALSE,
                tasks |-> <<>>]

\* The auto loop was never started and no feature run is in memory.
LoopIdle ==
    /\ autoLoopRunning = FALSE
    /\ autoLoopAbortController = FALSE
    /\ maxConcurrency = 0
    /\ sleeping = 0
    /\ loading = 0
    /\ staleSleeping = 0
    /\ staleLoading = 0
    /\ executionState = FALSE
    /\ runningFeatureIds = {}
    /\ savesInFlight = FALSE
    /\ clearsInFlight = FALSE
    /\ stopPc = "idle"
    /\ reg = [f \in LoopFeatures |-> "none"]
    /\ gaps = [f \in LoopFeatures |-> 0]
    /\ resumePc = "idle"
    /\ resumeQueue = << >>
    /\ withContext = {}
    /\ failuresInRow = 0
    /\ pausedEmitted = FALSE

\* The auto loop was never started and nothing is on disk.
NoLoop ==
    /\ LoopIdle
    /\ lfstatus = [f \in LoopFeatures |-> "backlog"]
    /\ lfoutput = [f \in LoopFeatures |-> FALSE]
    /\ atRestart = [f \in LoopFeatures |-> [status |-> "backlog", output |-> FALSE]]

\* No run is being followed phase by phase.
NoRun ==
    /\ run = [phase |-> "none"]
    /\ consecutiveFailures = 0
    /\ pausedDueToFailures = FALSE

\* The service right after construction: both maps empty, nothing running.
NothingRunning ==
    /\ runningFeatures = [f \in Features |-> NoCall]
    /\ cpc = [c \in Calls |-> "idle"]
    /\ ckind = [c \in Calls |-> None]
    /\ cfeature = [c \in Calls |-> None]
    /\ cAborted = [c \in Calls |-> FALSE]
    /\ cresult = [c \in Calls |-> None]
    /\ pendingApprovals = [f \in Features |-> NoCall]
    /\ wstate = [c \in Calls |-> None]
    /\ wtimer = [st |-> [c \in Calls |-> None], q |-> <<>>]
    /\ rpc = [r \in Resolvers |-> "idle"]
    /\ rfeature = [r \in Resolvers |-> None]
    /\ rtarget = [r \in Resolvers |-> NoCall]

TaskIds == {tasks.order[i] : i \in 1..Len(tasks.order)}

\* Math.max(1, Math.min(settings?.maxConcurrency ?? DEFAULT, CAP))
Max(a, b) == IF a >= b THEN a ELSE b
Min(a, b) == IF a <= b THEN a ELSE b

ClampTaskConcurrency(configured) ==
    Max(1, Min(IF configured = NotConfigured THEN DEFAULT_MAX_TASK_CONCURRENCY ELSE configured,
               MAX_TASK_CONCURRENCY_CAP))

\* const missing = task.dependsOn.filter((depId) => !taskMap.has(depId))
MissingDeps(t) == tasks.dependsOn[t] \ TaskIds

\* The first loop: tasks with a missing dependency are blocked up front.
BlockMissing(st) ==
    [t \in DOMAIN st |-> IF t \in TaskIds /\ MissingDeps(t) # {} THEN "blocked" ELSE st[t]]

isReadyIgnoringDeps(st, t) == st[t] = "pending"

\* isReady: pending, and every dependency currently completed.
isReady(st, t) ==
    /\ st[t] = "pending"
    /\ \A d \in tasks.dependsOn[t] : d \in TaskIds /\ st[d] = "completed"

\* tasks.filter(pred) as a sequence in document order.
RECURSIVE FilterOrder(_, _, _)
FilterOrder(order, st, skip) ==
    IF order = <<>> THEN <<>>
    ELSE IF isReady(st, Head(order)) /\ Head(order) \notin skip
         THEN <<Head(order)>> \o FilterOrder(Tail(order), st, skip)
         ELSE FilterOrder(Tail(order), st, skip)

SeqToSet(s) == {s[i] : i \in 1..Len(s)}

BlockPendingSkipped(st) == st

\* for (const task of ...) if (task.status === 'pending') task.status = 'blocked'
BlockPending(st) ==
    [t \in DOMAIN st |-> IF t \in TaskIds /\ st[t] = "pending" THEN "blocked" ELSE st[t]]

\* The code after the outer loop: the failure sweep, the cycle sweep, or return.
AfterLoop(st, rq, inf, hf) ==
    /\ readyQueue' = rq
    /\ inFlight' = inf
    /\ nextTask' = None
    /\ IF hf
       THEN /\ status' = BlockPending(st)
            /\ spc' = "finalSync"
            /\ outcome' = "tasks_failed"
       ELSE IF \E t \in TaskIds : st[t] = "pending"
            THEN /\ status' = BlockPending(st)
                 /\ spc' = "finalSync"
                 /\ outcome' = "cycle_detected"
            ELSE /\ status' = st
                 /\ spc' = "done"
                 /\ outcome' = "returned"

CanAdmitNoCap(rq, inf, hf) == ~hf /\ rq # <<>>

CanAdmitAfterFailure(rq, inf, hf) == Cardinality(inf) < maxTaskConcurrency' /\ rq # <<>>

\* The inner while's condition.
CanAdmit(rq, inf, hf) ==
    ~hf /\ Cardinality(inf) < maxTaskConcurrency' /\ rq # <<>>

\* The inner while from its condition on: start the next ready task and suspend
\* in scheduleTask's syncPlanSpec, or leave the loop, or suspend in Promise.race.
InnerWhile(st, rq, inf, hf) ==
    IF CanAdmit(rq, inf, hf)
    THEN /\ status' = [st EXCEPT ![Head(rq)] = "in_progress"]
         /\ readyQueue' = Tail(rq)
         /\ nextTask' = Head(rq)
         /\ inFlight' = inf
         /\ spc' = "scheduleSync"
         /\ outcome' = outcome
    ELSE IF inf = {}
         THEN AfterLoop(st, rq, inf, hf)
         ELSE /\ status' = st
              /\ readyQueue' = rq
              /\ inFlight' = inf
              /\ nextTask' = None
              /\ spc' = "race"
              /\ outcome' = outcome

\* The outer while(true) from its top: the abort check, then the inner while.
OuterLoop(st, rq, inf, hf) ==
    IF aborted
    THEN /\ status' = st
         /\ readyQueue' = rq
         /\ inFlight' = inf
         /\ nextTask' = None
         /\ spc' = "done"
         /\ outcome' = "aborted"
    ELSE InnerWhile(st, rq, inf, hf)

\* Entry: getGlobalSettings resolves; the cap is computed and tasks with a
\* missing dependency are blocked; with any, syncPlanSpec is awaited first.
SchedStart ==
    /\ spc = "start"
    /\ maxTaskConcurrency' = ClampTaskConcurrency(settingsMaxConcurrency)
    /\ LET st == BlockMissing(status) IN
       IF \E t \in TaskIds : MissingDeps(t) # {}
       THEN /\ status' = st
            /\ spc' = "syncMissing"
            /\ UNCHANGED <<readyQueue, inFlight, nextTask, outcome>>
       ELSE OuterLoop(st, FilterOrder(tasks.order, st, {}), inFlight, hadFailure)
    /\ UNCHANGED <<tasks, settingsMaxConcurrency, hadFailure, aborted, callResult,
                   featureStatus, runNext>>
    /\ UNCHANGED <<lifeVars, runVars, loopVars, planVars, metricsVars>>

SchedSyncMissingDone ==
    /\ spc = "syncMissing"
    /\ maxTaskConcurrency' = maxTaskConcurrency
    /\ OuterLoop(status, FilterOrder(tasks.order, status, {}), inFlight, hadFailure)
    /\ UNCHANGED <<tasks, settingsMaxConcurrency, hadFailure, aborted, callResult,
                   featureStatus, runNext>>
    /\ UNCHANGED <<lifeVars, runVars, loopVars, planVars, metricsVars>>

\* scheduleTask after its syncPlanSpec: the agent call starts and its promise
\* enters inFlight; control returns to the inner while.
SchedScheduleSyncDone ==
    /\ spc = "scheduleSync"
    /\ maxTaskConcurrency' = maxTaskConcurrency
    /\ InnerWhile(status, readyQueue, inFlight \cup {nextTask}, hadFailure)
    /\ UNCHANGED <<tasks, settingsMaxConcurrency, hadFailure, aborted, callResult,
                   featureStatus, runNext>>
    /\ UNCHANGED <<lifeVars, runVars, loopVars, planVars, metricsVars>>

\* A task's agent call settles with r. taskPromise.finally removes it from
\* inFlight. Only a scheduler suspended in Promise.race receives the result
\* and records it; it then suspends in syncPlanSpec.
TaskFinish(t, r) ==
    /\ t \in inFlight
    /\ inFlight' = inFlight \ {t}
    /\ callResult' = [callResult EXCEPT ![t] = r]
    /\ IF spc = "race"
       THEN /\ status' = [status EXCEPT ![t] = r]
            /\ hadFailure' = (hadFailure \/ r = "failed")
            /\ spc' = "resultSync"
       ELSE UNCHANGED <<status, hadFailure, spc>>
    /\ UNCHANGED <<tasks, settingsMaxConcurrency, maxTaskConcurrency, readyQueue,
                   nextTask, aborted, outcome, featureStatus, runNext>>
    /\ UNCHANGED <<lifeVars, runVars, loopVars, planVars, metricsVars>>

\* After the result's syncPlanSpec: newly ready tasks are queued (unless a
\* failure was recorded) and the outer loop starts over.
SchedResultSyncDone ==
    /\ spc = "resultSync"
    /\ maxTaskConcurrency' = maxTaskConcurrency
    /\ LET rq == IF hadFailure THEN readyQueue
                 ELSE readyQueue \o
                      FilterOrder(tasks.order, status, SeqToSet(readyQueue) \cup inFlight)
       IN OuterLoop(status, rq, inFlight, hadFailure)
    /\ UNCHANGED <<tasks, settingsMaxConcurrency, hadFailure, aborted, callResult,
                   featureStatus, runNext>>
    /\ UNCHANGED <<lifeVars, runVars, loopVars, planVars, metricsVars>>

\* The syncPlanSpec before either throw.
SchedFinalSyncDone ==
    /\ spc = "finalSync"
    /\ spc' = "done"
    /\ UNCHANGED <<tasks, settingsMaxConcurrency, maxTaskConcurrency, status, readyQueue,
                   inFlight, hadFailure, nextTask, aborted, outcome, callResult,
                   featureStatus, runNext>>
    /\ UNCHANGED <<lifeVars, runVars, loopVars, planVars, metricsVars>>

\* stopFeature aborts the run's AbortController.
SchedAbort ==
    /\ ~aborted
    /\ spc # "done"
    /\ aborted' = TRUE
    /\ UNCHANGED <<tasks, settingsMaxConcurrency, maxTaskConcurrency, status, readyQueue,
                   inFlight, hadFailure, spc, nextTask, outcome, callResult,
                   featureStatus, runNext>>
    /\ UNCHANGED <<lifeVars, runVars, loopVars, planVars, metricsVars>>

\* classifyError(error).isAbort: the errors of a user cancellation (the abort
\* of the run's controller, a plan rejected without feedback, a waiter
\* cancelled by stopFeature).
IsAbort(o) == o \in {"aborted", "plan_cancelled", "approval_cancelled"}

\* executeFeature around runAgent: a normal return goes on to the steps after
\* implementation; an error that is no abort reverts the feature to backlog.
FeatureRunContinues ==
    /\ spc = "done"
    /\ runNext = None
    /\ IF outcome = "returned"
       THEN /\ runNext' = "post_implementation"
            /\ UNCHANGED featureStatus
       ELSE IF IsAbort(outcome)
            THEN /\ runNext' = "stopped"
                 /\ UNCHANGED featureStatus
            ELSE /\ runNext' = "error"
                 /\ featureStatus' = "backlog"
    /\ UNCHANGED <<tasks, settingsMaxConcurrency, maxTaskConcurrency, status, readyQueue,
                   inFlight, hadFailure, spc, nextTask, aborted, outcome, callResult>>
    /\ UNCHANGED <<lifeVars, runVars, loopVars, planVars, metricsVars>>

SchedInit ==
    /\ tasks \in TaskLists
    /\ settingsMaxConcurrency \in {NotConfigured} \cup (0..MaxConfigured)
    /\ maxTaskConcurrency = 0
    /\ status = [t \in {"T001", "T002", "T003"} |-> IF t \in TaskIds THEN "pending" ELSE "absent"]
    /\ readyQueue = <<>>
    /\ inFlight = {}
    /\ hadFailure = FALSE
    /\ spc = "start"
    /\ nextTask = None
    /\ aborted = FALSE
    /\ outcome = None
    /\ callResult = [t \in {"T001", "T002", "T003"} |-> None]
    /\ featureStatus = "in_progress"
    /\ runNext = None
    /\ NothingRunning
    /\ contextExists = [f \in Features |-> FALSE]
    /\ fstatus = [f \in Features |-> "in_progress"]
    /\ NoRun
    /\ NoLoop
    /\ NoPlanSpecUpdate
    /\ NoMetricsRun

SchedNext ==
    \/ SchedStart
    \/ SchedSyncMissingDone
    \/ SchedScheduleSyncDone
    \/ \E t \in {"T001", "T002", "T003"} : \E r \in {"completed", "failed"} : TaskFinish(t, r)
    \/ SchedResultSyncDone
    \/ SchedFinalSyncDone
    \/ SchedAbort
    \/ FeatureRunContinues

SpecSched == SchedInit /\ [][SchedNext]_vars

(***************************************************************************)
(* Claims about the task scheduler (checked under SpecSched)                *)
(***************************************************************************)

Started(t) == status[t] \in {"in_progress", "completed", "failed"}

\* C3: a task's status changes to in_progress only when every id in its
\* dependsOn currently has status completed; in the list [T001, T002(deps
\* T001), T003(deps T001)] neither T002 nor T003 is started before T001 is
\* completed.
C3_StartOnlyWhenDepsCompleted ==
    /\ [][\A t \in TaskIds :
            (status[t] # "in_progress" /\ status'[t] = "in_progress")
                => \A d \in tasks.dependsOn[t] : d \in TaskIds /\ status[d] = "completed"]_vars
    /\ [](tasks.name = "fanout" =>
            ((Started("T002") \/ Started("T003")) => status["T001"] = "completed"))

\* C3 witness: with cap 2, T002 and T003 of the fan-out list are in flight together.
C3_Witness ==
    /\ tasks.name = "fanout"
    /\ maxTaskConcurrency = 2
    /\ {"T002", "T003"} \subseteq inFlight
    /\ status["T001"] = "completed"

\* C4 (as claimed): when the scheduler has returned or raised an error that is
\* no cancellation, every task whose agent call finished carries that call's
\* result as its status, and no task is left in_progress.
C4_EveryFinishedTaskRecorded ==
    (spc = "done" /\ ~aborted /\ outcome # "aborted") =>
        \A t \in TaskIds :
            /\ callResult[t] # None => status[t] = callResult[t]
            /\ status[t] # "in_progress"

\* C5 (as claimed): in a run that is not cancelled, if the agent call of any
\* task failed, the scheduler raised the aggregate task-failure error and the
\* feature was reverted to backlog instead of going on.
C5_FailureNeverReturnsNormally ==
    (runNext # None /\ ~aborted /\ \E t \in TaskIds : callResult[t] = "failed") =>
        /\ outcome = "tasks_failed"
        /\ runNext = "error"
        /\ featureStatus = "backlog"

\* C6 (as claimed): for the cyclic list the scheduler ends with the cycle
\* detected error and both tasks blocked.
C6_CycleAlwaysDetected ==
    (tasks.name = "cycle" /\ spc = "done") =>
        /\ outcome = "cycle_detected"
        /\ status["T001"] = "blocked"
        /\ status["T002"] = "blocked"

\* C6 (amended): for the cyclic list the scheduler never starts a task and
\* never waits on one; it ends with the cycle detected error and both tasks
\* blocked, unless the run was cancelled before the scheduling loop began, in
\* which case it ends with the abort error and both tasks still pending.
C6_CycleDetectedUnlessAborted ==
    tasks.name = "cycle" =>
        /\ inFlight = {}
        /\ spc \in {"start", "finalSync", "done"}
        /\ spc = "done" =>
            \/ /\ outcome = "cycle_detected"
               /\ status["T001"] = "blocked"
               /\ status["T002"] = "blocked"
            \/ /\ outcome = "aborted"
               /\ aborted
               /\ status["T001"] = "pending"
               /\ status["T002"] = "pending"

\* C6 witness: the cyclic list has ended with the cycle detected error.
C6_Witness ==
    /\ tasks.name = "cycle"
    /\ spc = "done"
    /\ outcome = "cycle_detected"
    /\ status["T001"] = "blocked"
    /\ status["T002"] = "blocked"

\* C7 (as claimed): in a run that is not cancelled, a task list naming a
\* dependency id it does not contain ends with an error and the feature
\* reverted to backlog.
C7_MissingDependencyIsFatal ==
    (runNext # None /\ ~aborted /\ \E t \in TaskIds : MissingDeps(t) # {}) =>
        /\ runNext = "error"
        /\ featureStatus = "backlog"

\* C8: the number of task agent calls in flight never exceeds the cap, and
\* the cap is the configured value clamped to 1..8, 3 when not configured.
C8_InFlightWithinClampedCap ==
    spc # "start" =>
        /\ Cardinality(inFlight) <= maxTaskConcurrency
        /\ maxTaskConcurrency \in 1..8
        /\ settingsMaxConcurrency = NotConfigured => maxTaskConcurrency = 3
        /\ settingsMaxConcurrency \in 1..8 => maxTaskConcurrency = settingsMaxConcurrency
        /\ settingsMaxConcurrency = 0 => maxTaskConcurrency = 1
        /\ settingsMaxConcurrency > 8 => maxTaskConcurrency = 8

\* C8 witness: the cap is binding: as many calls in flight as the cap allows
\* while another ready task waits in the queue.
C8_Witness ==
    /\ spc = "race"
    /\ Cardinality(inFlight) = maxTaskConcurrency
    /\ readyQueue # <<>>

AlreadyRunningNeverChecked(f) == FALSE

\* this.runningFeatures.has(featureId)
AlreadyRunning(f) == runningFeatures[f] # NoCall

\* A new invocation takes the lowest call slot that is free.
CanStart(c) ==
    /\ cpc[c] = "idle"
    /\ \A d \in Calls : d < c => cpc[d] # "idle"

\* Call c moves on: its suspension point, entry point, featureId, abort
\* signal and error.
SetCall(c, pc, kind, f, ab, res) ==
    /\ cpc' = [cpc EXCEPT ![c] = pc]
    /\ ckind' = [ckind EXCEPT ![c] = kind]
    /\ cfeature' = [cfeature EXCEPT ![c] = f]
    /\ cAborted' = [cAborted EXCEPT ![c] = ab]
    /\ cresult' = [cresult EXCEPT ![c] = res]

\* Call c is over and its slot is free again.
EndCall(c) == SetCall(c, "idle", None, None, FALSE, None)

MoveTo(c, pc) == SetCall(c, pc, ckind[c], cfeature[c], cAborted[c], cresult[c])

\* throw new Error('already running'): the call is over, refused.
Refuse(c, kind) == SetCall(c, "idle", kind, None, FALSE, "already_running")

\* Promises a resolvePlanApproval request holds on to are settled for good
\* once waiter w settles: its later pending.resolve(...) does nothing.
Forget(w) == [r \in Resolvers |-> IF rtarget[r] = w THEN Settled ELSE rtarget[r]]

\* clearTimeout(timeoutId) of call w's waiter.
ClearTimer(tm, w) ==
    IF tm.st[w] = "armed"
    THEN [st |-> [tm.st EXCEPT ![w] = "cleared"], q |-> SelectSeq(tm.q, LAMBDA x : x # w)]
    ELSE tm

\* setTimeout(..., APPROVAL_TIMEOUT_MS) of call w's waiter. All timers run for
\* the same 30 minutes, so they come due in the order they were armed.
ArmTimer(tm, w) == [st |-> [tm.st EXCEPT ![w] = "armed"], q |-> Append(tm.q, w)]

\* executeFeature from its first line to its first await: the duplicate check
\* and, right after it, the registration with a fresh AbortController.
ExecuteFeatureEntry(c, kind, f, cont) ==
    IF AlreadyRunning(f)
    THEN /\ Refuse(c, kind)
         /\ UNCHANGED runningFeatures
    ELSE /\ runningFeatures' = [runningFeatures EXCEPT ![f] = c]
         /\ SetCall(c, IF cont THEN "ex_load" ELSE "ex_ctx", kind, f, FALSE, None)

\* executeFeature called by a route, the auto loop or the approval recovery
\* path, with or without options.continuationPrompt.
ExecuteFeature(c, f, cont) ==
    /\ CanStart(c)
    /\ ExecuteFeatureEntry(c, "execute", f, cont)
    /\ UNCHANGED <<contextExists, fstatus, pendingApprovals, wstate, wtimer, rpc,
                   rfeature, rtarget>>
    /\ UNCHANGED <<schedVars, runVars, loopVars, planVars, metricsVars>>

\* await this.contextExists(...) of a run without continuation prompt has
\* resolved. With a context the run drops its registry entry and hands over
\* to resumeFeature, whose own duplicate check runs at once; the finally of
\* executeFeature deletes the (already absent) entry. Without one the run
\* loads the feature and moves it to in_progress.
ExecuteContextChecked(c) ==
    /\ cpc[c] = "ex_ctx"
    /\ IF contextExists[cfeature[c]]
       THEN /\ runningFeatures' = [runningFeatures EXCEPT ![cfeature[c]] = NoCall]
            /\ MoveTo(c, "rs_load")
            /\ UNCHANGED fstatus
       ELSE /\ fstatus' = [fstatus EXCEPT ![cfeature[c]] = "in_progress"]
            /\ MoveTo(c, "agent")
            /\ UNCHANGED runningFeatures
    /\ UNCHANGED <<contextExists, pendingApprovals, wstate, wtimer, rpc, rfeature, rtarget>>
    /\ UNCHANGED <<schedVars, runVars, loopVars, planVars, metricsVars>>

\* The awaits of a run with continuation prompt up to runAgent.
ExecuteLoaded(c) ==
    /\ cpc[c] = "ex_load"
    /\ fstatus' = [fstatus EXCEPT ![cfeature[c]] = "in_progress"]
    /\ MoveTo(c, "agent")
    /\ UNCHANGED <<runningFeatures, contextExists, pendingApprovals, wstate, wtimer, rpc,
                   rfeature, rtarget>>
    /\ UNCHANGED <<schedVars, runVars, loopVars, planVars, metricsVars>>

\* resumeFeature from its first line to its first await: only the check.
ResumeFeature(c, f) ==
    /\ CanStart(c)
    /\ IF AlreadyRunning(f)
       THEN Refuse(c, "resume")
       ELSE SetCall(c, "rs_load", "resume", f, FALSE, None)
    /\ UNCHANGED <<runningFeatures, contextExists, fstatus, pendingApprovals, wstate,
                   wtimer, rpc, rfeature, rtarget>>
    /\ UNCHANGED <<schedVars, runVars, loopVars, planVars, metricsVars>>

\* feature.status names a pipeline step (detectPipelineStatus(...).isPipeline).
IsPipeline(f) == fstatus[f] = "pipeline_step"

FinalStatuses == {"verified", "waiting_approval"}

\* The awaits of resumeFeature (loadFeature, detectPipelineStatus, access,
\* readFile) have resolved and it dispatches. A pipeline feature with context
\* and a step that still exists goes to resumeFromPipelineStep, which
\* registers the run with no duplicate check of its own; without such a step
\* it is finalized; without context it is reset first. Any other feature goes
\* to executeFeature, with a continuation prompt when it has a context.
ResumeLoaded(c, stepExists, final) ==
    /\ cpc[c] = "rs_load"
    /\ IF IsPipeline(cfeature[c])
       THEN IF ~contextExists[cfeature[c]]
            THEN /\ MoveTo(c, "rp_reset")
                 /\ UNCHANGED <<runningFeatures, fstatus>>
            ELSE IF ~stepExists
                 THEN /\ fstatus' = [fstatus EXCEPT ![cfeature[c]] = final]
                      /\ EndCall(c)
                      /\ UNCHANGED runningFeatures
                 ELSE /\ runningFeatures' = [runningFeatures EXCEPT ![cfeature[c]] = c]
                      /\ SetCall(c, "rp_step", ckind[c], cfeature[c], FALSE, None)
                      /\ UNCHANGED fstatus
       ELSE /\ ExecuteFeatureEntry(c, ckind[c], cfeature[c], contextExists[cfeature[c]])
            /\ UNCHANGED fstatus
    /\ UNCHANGED <<contextExists, pendingApprovals, wstate, wtimer, rpc, rfeature, rtarget>>
    /\ UNCHANGED <<schedVars, runVars, loopVars, planVars, metricsVars>>

\* resumePipelineFeature without context: the status is reset to in_progress
\* and the feature is executed from scratch.
ResumeReset(c) ==
    /\ cpc[c] = "rp_reset"
    /\ fstatus' = [fstatus EXCEPT ![cfeature[c]] = "in_progress"]
    /\ ExecuteFeatureEntry(c, ckind[c], cfeature[c], FALSE)
    /\ UNCHANGED <<contextExists, pendingApprovals, wstate, wtimer, rpc, rfeature, rtarget>>
    /\ UNCHANGED <<schedVars, runVars, loopVars, planVars, metricsVars>>

\* resumeFromPipelineStep calls executePipelineSteps without its roleModels
\* and rolePrompts arguments: the first step's status is written, then
\* roleModels.worker.model throws a TypeError, before any agent call.
ResumeFromPipelineStepThrows(c) ==
    /\ cpc[c] = "rp_step"
    /\ fstatus' = [fstatus EXCEPT ![cfeature[c]] = "pipeline_step"]
    /\ SetCall(c, "unwind", ckind[c], cfeature[c], cAborted[c], "type_error")
    /\ UNCHANGED <<runningFeatures, contextExists, pendingApprovals, wstate, wtimer, rpc,
                   rfeature, rtarget>>
    /\ UNCHANGED <<schedVars, runVars, loopVars, planVars, metricsVars>>

\* followUpFeature from its first line to its first await: only the check.
FollowUpFeature(c, f) ==
    /\ CanStart(c)
    /\ IF AlreadyRunning(f)
       THEN Refuse(c, "followUp")
       ELSE SetCall(c, "fu_prep", "followUp", f, FALSE, None)
    /\ UNCHANGED <<runningFeatures, contextExists, fstatus, pendingApprovals, wstate,
                   wtimer, rpc, rfeature, rtarget>>
    /\ UNCHANGED <<schedVars, runVars, loopVars, planVars, metricsVars>>

\* The awaits of followUpFeature before its registration have resolved: it
\* registers the run with no second check and moves the feature to
\* in_progress before runAgent.
FollowUpPrepared(c) ==
    /\ cpc[c] = "fu_prep"
    /\ runningFeatures' = [runningFeatures EXCEPT ![cfeature[c]] = c]
    /\ fstatus' = [fstatus EXCEPT ![cfeature[c]] = "in_progress"]
    /\ SetCall(c, "agent_skip", ckind[c], cfeature[c], FALSE, None)
    /\ UNCHANGED <<contextExists, pendingApprovals, wstate, wtimer, rpc, rfeature, rtarget>>
    /\ UNCHANGED <<schedVars, runVars, loopVars, planVars, metricsVars>>

\* stopFeature: cancel the feature's pending approval, abort the registered
\* run's controller, delete the registry entry.
StopFeature(f) ==
    /\ runningFeatures[f] # NoCall
    /\ cAborted' = [cAborted EXCEPT ![runningFeatures[f]] = TRUE]
    /\ runningFeatures' = [runningFeatures EXCEPT ![f] = NoCall]
    /\ IF pendingApprovals[f] # NoCall
       THEN /\ wstate' = [wstate EXCEPT ![pendingApprovals[f]] =
                            IF @ = "pending" THEN "stopped" ELSE @]
            /\ wtimer' = ClearTimer(wtimer, pendingApprovals[f])
            /\ rtarget' = Forget(pendingApprovals[f])
            /\ pendingApprovals' = [pendingApprovals EXCEPT ![f] = NoCall]
       ELSE UNCHANGED <<wstate, wtimer, rtarget, pendingApprovals>>
    /\ UNCHANGED <<cpc, ckind, cfeature, cresult, contextExists, fstatus, rpc, rfeature>>
    /\ UNCHANGED <<schedVars, runVars, loopVars, planVars, metricsVars>>


AgentWork == {"agent", "agent_skip", "revise"}

\* waitForPlanApproval: a new promise and timer, and the table entry of the
\* feature set to them, whatever it held.
WaitForPlanApproval(c) ==
    /\ pendingApprovals' = [pendingApprovals EXCEPT ![cfeature[c]] = c]
    /\ wstate' = [wstate EXCEPT ![c] = "pending"]
    /\ wtimer' = ArmTimer(wtimer, c)
    /\ MoveTo(c, "approval")

\* runAgent of executeFeature has produced a plan that needs approval
\* (planning mode spec/full/lite with requirePlanApproval), or the revision
\* call has produced the next version: the run registers a waiter and awaits it.
AgentPlanReady(c) ==
    /\ cpc[c] \in {"agent", "revise"}
    /\ WaitForPlanApproval(c)
    /\ UNCHANGED <<runningFeatures, contextExists, fstatus, rpc, rfeature, rtarget>>
    /\ UNCHANGED <<schedVars, runVars, loopVars, planVars, metricsVars>>

\* The run starts a pipeline step: status pipeline_<step>, then an agent call
\* with planningMode skip. followUpFeature runs no pipeline steps.
PipelineStepStarts(c) ==
    /\ cpc[c] \in {"agent", "agent_skip"}
    /\ ckind[c] # "followUp"
    /\ fstatus' = [fstatus EXCEPT ![cfeature[c]] = "pipeline_step"]
    /\ contextExists' = [contextExists EXCEPT ![cfeature[c]] = TRUE]
    /\ MoveTo(c, "agent_skip")
    /\ UNCHANGED <<runningFeatures, pendingApprovals, wstate, wtimer, rpc, rfeature,
                   rtarget>>
    /\ UNCHANGED <<schedVars, runVars, loopVars, planVars, metricsVars>>

\* The run's agent work is over: agent-output.md is written and the final
\* status is next.
AgentCompletes(c) ==
    /\ cpc[c] \in {"agent", "agent_skip"}
    /\ contextExists' = [contextExists EXCEPT ![cfeature[c]] = TRUE]
    /\ MoveTo(c, "finalize")
    /\ UNCHANGED <<runningFeatures, fstatus, pendingApprovals, wstate, wtimer, rpc,
                   rfeature, rtarget>>
    /\ UNCHANGED <<schedVars, runVars, loopVars, planVars, metricsVars>>

\* An agent call of the run throws: the abort error when the run's controller
\* was aborted, any other error at any time.
AgentThrows(c, err) ==
    /\ cpc[c] \in AgentWork
    /\ err = "aborted" => cAborted[c]
    /\ SetCall(c, "unwind", ckind[c], cfeature[c], cAborted[c], err)
    /\ UNCHANGED <<runningFeatures, contextExists, fstatus, pendingApprovals, wstate,
                   wtimer, rpc, rfeature, rtarget>>
    /\ UNCHANGED <<schedVars, runVars, loopVars, planVars, metricsVars>>

\* What the approval loop does with the outcome of the promise it awaited.
AfterApproval(w) ==
    CASE w = "approved" -> [pc |-> "agent_skip", err |-> None]
      [] w = "revise" -> [pc |-> "revise", err |-> None]
      [] w = "cancel" -> [pc |-> "unwind", err |-> "plan_cancelled"]
      [] w = "stopped" -> [pc |-> "unwind", err |-> "approval_cancelled"]
      [] w = "timeout" -> [pc |-> "unwind", err |-> "approval_timeout"]

\* The promise the run awaits in the approval loop has settled.
ApprovalSettled(c) ==
    /\ cpc[c] = "approval"
    /\ wstate[c] # "pending"
    /\ wstate' = [wstate EXCEPT ![c] = None]
    /\ wtimer' = [wtimer EXCEPT !.st[c] = None]
    /\ SetCall(c, AfterApproval(wstate[c]).pc, ckind[c], cfeature[c], cAborted[c],
               AfterApproval(wstate[c]).err)
    /\ UNCHANGED <<runningFeatures, contextExists, fstatus, pendingApprovals, rpc,
                   rfeature, rtarget>>
    /\ UNCHANGED <<schedVars, runVars, loopVars, planVars, metricsVars>>

\* The catch of the run: an error that is no cancellation reverts the feature
\* to backlog (followUpFeature leaves the status alone).
Unwind(c) ==
    /\ cpc[c] = "unwind"
    /\ fstatus' = [fstatus EXCEPT ![cfeature[c]] =
                     IF IsAbort(cresult[c]) \/ ckind[c] = "followUp" THEN @ ELSE "backlog"]
    /\ MoveTo(c, "cleanup")
    /\ UNCHANGED <<runningFeatures, contextExists, pendingApprovals, wstate, wtimer, rpc,
                   rfeature, rtarget>>
    /\ UNCHANGED <<schedVars, runVars, loopVars, planVars, metricsVars>>

\* The final status of a run that went through.
Finalize(c, final) ==
    /\ cpc[c] = "finalize"
    /\ fstatus' = [fstatus EXCEPT ![cfeature[c]] = final]
    /\ MoveTo(c, "cleanup")
    /\ UNCHANGED <<runningFeatures, contextExists, pendingApprovals, wstate, wtimer, rpc,
                   rfeature, rtarget>>
    /\ UNCHANGED <<schedVars, runVars, loopVars, planVars, metricsVars>>

\* The finally of the run: this.runningFeatures.delete(featureId).
Cleanup(c) ==
    /\ cpc[c] = "cleanup"
    /\ runningFeatures' = [runningFeatures EXCEPT ![cfeature[c]] = NoCall]
    /\ EndCall(c)
    /\ UNCHANGED <<contextExists, fstatus, pendingApprovals, wstate, wtimer, rpc, rfeature,
                   rtarget>>
    /\ UNCHANGED <<schedVars, runVars, loopVars, planVars, metricsVars>>

Decisions == {"approved", "revise", "cancel"}

\* resolvePlanApproval up to its await: the waiter is looked up. (Without a
\* waiter the request settles nothing: it fails, or takes the recovery path,
\* which is an executeFeature call with a continuation prompt.)
ResolvePlanApprovalBegin(r, f) ==
    /\ rpc[r] = "idle"
    /\ pendingApprovals[f] # NoCall
    /\ rpc' = [rpc EXCEPT ![r] = "persist"]
    /\ rfeature' = [rfeature EXCEPT ![r] = f]
    /\ rtarget' = [rtarget EXCEPT ![r] = pendingApprovals[f]]
    /\ UNCHANGED <<runningFeatures, cpc, ckind, cfeature, cAborted, cresult, contextExists,
                   fstatus, pendingApprovals, wstate, wtimer>>
    /\ UNCHANGED <<schedVars, runVars, loopVars, planVars, metricsVars>>

\* resolvePlanApproval after await updateFeaturePlanSpec: pending.resolve(...)
\* with the request's decision d (approved, rejected with feedback, rejected
\* without) on the waiter looked up before the await, then
\* this.pendingApprovals.delete(featureId) on whatever the table holds now.
ResolvePlanApprovalEnd(r, d) ==
    /\ rpc[r] = "persist"
    /\ IF rtarget[r] \in Calls
       THEN /\ wstate' = [wstate EXCEPT ![rtarget[r]] = d]
            /\ wtimer' = ClearTimer(wtimer, rtarget[r])
       ELSE UNCHANGED <<wstate, wtimer>>
    /\ pendingApprovals' = [pendingApprovals EXCEPT ![rfeature[r]] = NoCall]
    /\ rpc' = [rpc EXCEPT ![r] = "idle"]
    /\ rfeature' = [rfeature EXCEPT ![r] = None]
    /\ rtarget' = [q \in Resolvers |->
                     IF q = r THEN NoCall
                     ELSE IF rtarget[q] = rtarget[r] /\ rtarget[r] \in Calls THEN Settled
                     ELSE rtarget[q]]
    /\ UNCHANGED <<runningFeatures, cpc, ckind, cfeature, cAborted, cresult, contextExists,
                   fstatus>>
    /\ UNCHANGED <<schedVars, runVars, loopVars, planVars, metricsVars>>

\* The timeout callback of the oldest armed timer runs: if the table holds a
\* waiter for the timer's featureId, that entry is deleted and the timer's own
\* promise is rejected; otherwise nothing happens.
ApprovalTimeout ==
    /\ wtimer.q # <<>>
    /\ LET w == Head(wtimer.q)
           f == cfeature[Head(wtimer.q)]
       IN  /\ wtimer' = [st |-> [wtimer.st EXCEPT ![w] = "fired"], q |-> Tail(wtimer.q)]
           /\ IF pendingApprovals[f] # NoCall
              THEN /\ pendingApprovals' = [pendingApprovals EXCEPT ![f] = NoCall]
                   /\ wstate' = [wstate EXCEPT ![w] = "timeout"]
                   /\ rtarget' = Forget(w)
              ELSE UNCHANGED <<pendingApprovals, wstate, rtarget>>
    /\ UNCHANGED <<runningFeatures, cpc, ckind, cfeature, cAborted, cresult, contextExists,
                   fstatus, rpc, rfeature>>
    /\ UNCHANGED <<schedVars, runVars, loopVars, planVars, metricsVars>>

\* The scheduler of PART 1 at rest.
NothingScheduled ==
    /\ tasks = CHOOSE l \in TaskLists : l.name = "independent"
    /\ settingsMaxConcurrency = NotConfigured
    /\ maxTaskConcurrency = 0
    /\ status = [t \in {"T001", "T002", "T003"} |-> "pending"]
    /\ readyQueue = <<>>
    /\ inFlight = {}
    /\ hadFailure = FALSE
    /\ spc = "start"
    /\ nextTask = None
    /\ aborted = FALSE
    /\ outcome = None
    /\ callResult = [t \in {"T001", "T002", "T003"} |-> None]
    /\ featureStatus = "in_progress"
    /\ runNext = None

\* The service after construction. What is on disk is what an earlier process
\* left there: a feature in the backlog or one interrupted in a pipeline step,
\* with or without agent output.
Init ==
    /\ NothingRunning
    /\ contextExists \in [Features -> BOOLEAN]
    /\ fstatus \in [Features -> {"backlog", "pipeline_step"}]
    /\ NothingScheduled
    /\ NoRun
    /\ NoLoop
    /\ NoPlanSpecUpdate
    /\ NoMetricsRun

Next ==
    \/ \E c \in Calls, f \in Features, cont \in BOOLEAN : ExecuteFeature(c, f, cont)
    \/ \E c \in Calls : ExecuteContextChecked(c)
    \/ \E c \in Calls : ExecuteLoaded(c)
    \/ \E c \in Calls, f \in Features : ResumeFeature(c, f)
    \/ \E c \in Calls, stepExists \in BOOLEAN, final \in FinalStatuses :
            ResumeLoaded(c, stepExists, final)
    \/ \E c \in Calls : ResumeReset(c)
    \/ \E c \in Calls : ResumeFromPipelineStepThrows(c)
    \/ \E c \in Calls, f \in Features : FollowUpFeature(c, f)
    \/ \E c \in Calls : FollowUpPrepared(c)
    \/ \E f \in Features : StopFeature(f)
    \/ \E c \in Calls : AgentPlanReady(c)
    \/ \E c \in Calls : PipelineStepStarts(c)
    \/ \E c \in Calls : AgentCompletes(c)
    \/ \E c \in Calls, err \in {"aborted", "agent_error"} : AgentThrows(c, err)
    \/ \E c \in Calls : ApprovalSettled(c)
    \/ \E c \in Calls : Unwind(c)
    \/ \E c \in Calls, final \in FinalStatuses : Finalize(c, final)
    \/ \E c \in Calls : Cleanup(c)
    \/ \E r \in Resolvers, f \in Features : ResolvePlanApprovalBegin(r, f)
    \/ \E r \in Resolvers, d \in Decisions : ResolvePlanApprovalEnd(r, d)
    \/ ApprovalTimeout

Spec == Init /\ [][Next]_vars


(***************************************************************************)
(* Claims about the registry and the approval waiters (checked under Spec)  *)
(***************************************************************************)

\* Call c performs the first lines of executeFeature for feature f in this
\* step: called from outside, or from resumeFeature / resumePipelineFeature.
ExecuteFeatureEntered(c, f) ==
    \/ \E cont \in BOOLEAN : ExecuteFeature(c, f, cont)
    \/ /\ cfeature[c] = f
       /\ ~IsPipeline(f)
       /\ \E stepExists \in BOOLEAN, final \in FinalStatuses : ResumeLoaded(c, stepExists, final)
    \/ /\ cfeature[c] = f
       /\ ResumeReset(c)

\* C1: executeFeature called for a featureId that has an entry in the
\* registry fails with the error already running, and the registry, the
\* existing entry and its cancellation token stay as they were.
C1_AlreadyRunningRefused ==
    [][\A c \in Calls, f \in Features :
        (ExecuteFeatureEntered(c, f) /\ runningFeatures[f] # NoCall) =>
            /\ cresult'[c] = "already_running"
            /\ cpc'[c] = "idle"
            /\ runningFeatures' = runningFeatures
            /\ cAborted'[runningFeatures[f]] = cAborted[runningFeatures[f]]]_vars

\* C1 witness: an executeFeature call has been refused while the run it
\* collided with is still registered and not cancelled.
C1_Witness ==
    \E c \in Calls, f \in Features :
        /\ cpc[c] = "idle"
        /\ ckind[c] = "execute"
        /\ cresult[c] = "already_running"
        /\ runningFeatures[f] \in Calls
        /\ cpc[runningFeatures[f]] \in AgentWork
        /\ ~cAborted[runningFeatures[f]]

\* C2 (as claimed): whatever the interleaving of calls for one featureId, at
\* most one call that was not cancelled is doing agent work for it.
C2_AtMostOneRunPerFeature ==
    \A f \in Features :
        Cardinality({c \in Calls : cfeature[c] = f /\ cpc[c] \in AgentWork /\ ~cAborted[c]}) <= 1

\* C9 (as claimed): a feature has at most one pending approval waiter at any
\* time, even counting only the waiters of runs that were not cancelled.
C9_AtMostOnePendingWaiter ==
    \A f \in Features :
        Cardinality({c \in Calls : cfeature[c] = f /\ wstate[c] = "pending" /\ ~cAborted[c]}) <= 1

\* C10 (as claimed): a waiter is settled at the latest when its 30 minute
\* timeout has elapsed: with no run cancelled, no waiter is pending once its
\* timer has run.
C10_TimeoutSettlesWaiter ==
    (\A d \in Calls : ~cAborted[d]) =>
        \A c \in Calls : wtimer.st[c] = "fired" => wstate[c] # "pending"

\* C38 (as claimed): the finally block of a run removes no registry entry but
\* its own: when the registry holds the entry of another, newer run of the
\* feature, that entry is still there after the cleanup.
C38_CleanupRemovesOwnEntryOnly ==
    [][\A c \in Calls :
          (/\ Cleanup(c)
           /\ runningFeatures[cfeature[c]] # NoCall
           /\ runningFeatures[cfeature[c]] # c)
              => runningFeatures'[cfeature[c]] = runningFeatures[cfeature[c]]]_vars

\* C39 (as claimed): resolvePlanApproval removes no waiter but the one it
\* looked up: when that waiter was settled during the await and the table
\* holds a new waiter of the feature, the new waiter is still in the table
\* when the call returns.
C39_ResolveRemovesOwnWaiterOnly ==
    [][\A r \in Resolvers, d \in Decisions :
          (/\ ResolvePlanApprovalEnd(r, d)
           /\ rtarget[r] = Settled
           /\ pendingApprovals[rfeature[r]] # NoCall)
              => pendingApprovals'[rfeature[r]] = pendingApprovals[rfeature[r]]]_vars

\* ======================================================================
\* PART 3.  One orchestration run, phase by phase: plan generation and the
\* plan quality loop, the approval loop, implementation, pipeline steps,
\* quality gates and their fix loop, the judge and its revision loop, the
\* final status, the catch clause and the failure tracking.
\* ======================================================================

CONSECUTIVE_FAILURE_THRESHOLD == 3
MAX_QUALITY_FIX_ATTEMPTS == 2
MAX_JUDGE_REVISIONS == 2
MAX_PLAN_QUALITY_REVISIONS == 2

\* How many times the user rejects a plan with feedback in one run.
MaxFeedbackRejections == 2

\* The entry points that carry a run to a final status.
Entries == {"executeFeature", "followUpFeature", "resumeFromPipelineStep", "resumePipelineFeature"}

\* The state of a run when its entry point has registered it in
\* runningFeatures: the feature's settings, its persisted status and plan
\* spec, and the locals of executeFeature and runAgent.
InitialRun(entry, planning, requiresApproval, skipTests, hasPipeline, status0, output0) ==
    [ entry |-> entry,
      output |-> output0,
      phase |-> "entered",
      planning |-> planning,
      requiresApproval |-> requiresApproval,
      skipTests |-> skipTests,
      hasPipeline |-> hasPipeline,
      status |-> status0,
      stopped |-> FALSE,
      statusAtStop |-> "none",
      phaseAtStop |-> "none",
      error |-> "none",
      qualityIssues |-> FALSE,
      qualityRevisionCount |-> 0,
      planVersion |-> 0,
      planSpecStatus |-> "pending",
      planSpecVersion |-> 0,
      planSpecQualityIssues |-> FALSE,
      feedbackRejections |-> 0,
      revisionCalls |-> 0,
      waiters |-> 0,
      waiter |-> "none",
      lastDecision |-> "none",
      tasksStarted |-> FALSE,
      pipelineStarted |-> FALSE,
      checks |-> << >>,
      gatesRun |-> FALSE,
      qualityPassed |-> FALSE,
      qualityFixes |-> 0,
      judged |-> FALSE,
      judgePassed |-> FALSE,
      judgeRevisions |-> 0,
      verificationDone |-> FALSE,
      completion |-> "none",
      errorEvent |-> FALSE,
      failureTracked |-> FALSE ]

\* An exception leaves the try block of the entry point.
Thrown(r, err) == [r EXCEPT !.phase = "caught", !.error = err]

\* What an agent call of run r can throw: a provider error at any time, an
\* abort error once the run's AbortController was aborted.
AgentErrors(r) == {"agent_error"} \cup (IF r.stopped THEN {"aborted"} ELSE {})

\* errorInfo.isCancellation of classifyError, as followUpFeature reads it.
IsCancellation(o) == IsAbort(o)

\* stopFeature(featureId) while the run is registered: cancelPlanApproval
\* rejects the pending waiter, the AbortController is aborted, the entry is
\* deleted from runningFeatures (so a second stopFeature returns false).
RunStopFeature ==
    /\ run.phase \notin {"none", "done"}
    /\ run.entry # "resumePipelineFeature"
    /\ ~run.stopped
    /\ run' = [run EXCEPT !.stopped = TRUE,
                          !.statusAtStop = run.status,
                          !.phaseAtStop = run.phase,
                          !.waiter = IF @ = "pending" THEN "cancelled" ELSE @]
    /\ UNCHANGED <<consecutiveFailures, pausedDueToFailures>>
    /\ UNCHANGED <<schedVars, lifeVars, loopVars, planVars, metricsVars>>

\* executeFeature: await updateFeatureStatus(in_progress), then runAgent opens
\* the agent stream.
ExecuteFeatureInProgress ==
    /\ run.phase = "entered"
    /\ run.entry = "executeFeature"
    /\ run' = [run EXCEPT !.status = "in_progress", !.phase = "agent"]
    /\ UNCHANGED <<consecutiveFailures, pausedDueToFailures>>
    /\ UNCHANGED <<schedVars, lifeVars, loopVars, planVars, metricsVars>>

\* The plan quality loop without its bound.
PlanQualityLoopUnbounded(r) ==
    IF r.qualityIssues
    THEN [r EXCEPT !.phase = "planQualityRevision"]
    ELSE [r EXCEPT !.phase = "planGenerated"]

\* The head of the plan quality loop: another automatic revision while issues
\* remain and the bound is not reached, otherwise the generated plan is
\* written to the plan spec.
PlanQualityLoop(r) ==
    IF r.qualityIssues /\ r.qualityRevisionCount < MAX_PLAN_QUALITY_REVISIONS
    THEN [r EXCEPT !.phase = "planQualityRevision"]
    ELSE [r EXCEPT !.phase = "planGenerated"]

\* runAgent sees [SPEC_GENERATED] in the stream: getPlanQualityIssues on the
\* plan (issues: whether it reports any), qualityRevisionCount = 0.
RunAgentSpecDetected(issues) ==
    /\ run.phase = "agent"
    /\ run.planning
    /\ run' = PlanQualityLoop([run EXCEPT !.qualityIssues = issues,
                                          !.qualityRevisionCount = 0])
    /\ UNCHANGED <<consecutiveFailures, pausedDueToFailures>>
    /\ UNCHANGED <<schedVars, lifeVars, loopVars, planVars, metricsVars>>

\* revisePlanForQuality returns: null (no revised content) breaks the loop;
\* otherwise the issues of the revised plan are recomputed and the count grows.
RevisePlanForQualityReturns(res) ==
    /\ run.phase = "planQualityRevision"
    /\ run' = IF res = "null"
              THEN [run EXCEPT !.phase = "planGenerated"]
              ELSE PlanQualityLoop([run EXCEPT !.qualityIssues = (res = "issues"),
                                               !.qualityRevisionCount = @ + 1])
    /\ UNCHANGED <<consecutiveFailures, pausedDueToFailures>>
    /\ UNCHANGED <<schedVars, lifeVars, loopVars, planVars, metricsVars>>

\* revisePlanForQuality throws (an error message in its stream, or the abort).
RevisePlanForQualityThrows(err) ==
    /\ run.phase = "planQualityRevision"
    /\ err \in AgentErrors(run)
    /\ run' = Thrown(run, err)
    /\ UNCHANGED <<consecutiveFailures, pausedDueToFailures>>
    /\ UNCHANGED <<schedVars, lifeVars, loopVars, planVars, metricsVars>>

\* updateFeaturePlanSpec(status generated, version 1 + qualityRevisionCount,
\* qualityIssues) is done; with requiresApproval the approval loop registers
\* its first waiter, otherwise the plan is auto-approved.
PlanSpecGenerated ==
    /\ run.phase = "planGenerated"
    /\ run' = [run EXCEPT !.planSpecStatus = "generated",
                          !.planSpecVersion = 1 + run.qualityRevisionCount,
                          !.planSpecQualityIssues = run.qualityIssues,
                          !.planVersion = 1 + run.qualityRevisionCount,
                          !.waiter = IF run.requiresApproval THEN "pending" ELSE @,
                          !.waiters = IF run.requiresApproval THEN @ + 1 ELSE @,
                          !.phase = IF run.requiresApproval THEN "approval" ELSE "planApproving"]
    /\ UNCHANGED <<consecutiveFailures, pausedDueToFailures>>
    /\ UNCHANGED <<schedVars, lifeVars, loopVars, planVars, metricsVars>>

\* The user's answers to a plan: approve, reject with feedback or edits,
\* reject with neither.
PlanDecisions == {"approve", "reject_feedback", "reject_empty"}

\* The version left as it was.
SamePlanVersion(v) == v

\* The version the approval loop gives the plan after a rejection with feedback.
NextPlanVersion(v) == v + 1

\* The waiter that the approval loop registers after a revision.
RearmWaiter(r) == [r EXCEPT !.waiter = "pending", !.waiters = @ + 1]

\* The approval promise resolves with the user's decision d.  Approved: the
\* loop ends.  Rejected with feedback: planVersion++, the plan spec goes to
\* generating and one revision query is issued to the planner.  Rejected with
\* neither feedback nor edits: throw 'Plan cancelled by user'.
ApprovalResolved(d) ==
    /\ run.phase = "approval"
    /\ run.waiter = "pending"
    /\ d = "reject_feedback" => run.feedbackRejections < MaxFeedbackRejections
    /\ run' = CASE d = "approve" ->
                     [run EXCEPT !.waiter = "none", !.lastDecision = d,
                                 !.phase = "planApproving"]
                [] d = "reject_feedback" ->
                     [run EXCEPT !.waiter = "none", !.lastDecision = d,
                                 !.planVersion = NextPlanVersion(@),
                                 !.feedbackRejections = @ + 1,
                                 !.planSpecStatus = "generating",
                                 !.planSpecVersion = NextPlanVersion(run.planVersion),
                                 !.revisionCalls = @ + 1,
                                 !.phase = "planRevision"]
                [] OTHER ->
                     Thrown([run EXCEPT !.waiter = "none", !.lastDecision = d],
                            "plan_cancelled")
    /\ UNCHANGED <<consecutiveFailures, pausedDueToFailures>>
    /\ UNCHANGED <<schedVars, lifeVars, loopVars, planVars, metricsVars>>

\* The 30 minute timer rejects the pending waiter; the message holds the word
\* 'cancelled', so runAgent rethrows it as it is.
ApprovalTimedOut ==
    /\ run.phase = "approval"
    /\ run.waiter = "pending"
    /\ run' = Thrown([run EXCEPT !.waiter = "none"], "approval_timeout")
    /\ UNCHANGED <<consecutiveFailures, pausedDueToFailures>>
    /\ UNCHANGED <<schedVars, lifeVars, loopVars, planVars, metricsVars>>

\* The waiter was rejected by cancelPlanApproval: the run resumes in the catch
\* clause of the approval loop, which rethrows.
ApprovalCancelled ==
    /\ run.phase = "approval"
    /\ run.waiter = "cancelled"
    /\ run' = Thrown([run EXCEPT !.waiter = "none"], "approval_cancelled")
    /\ UNCHANGED <<consecutiveFailures, pausedDueToFailures>>
    /\ UNCHANGED <<schedVars, lifeVars, loopVars, planVars, metricsVars>>

\* The revision stream ends: the plan spec is written as generated with the
\* new version (its qualityIssues are left as they were) and the loop goes
\* round: a new waiter is registered.
PlanRevisionReturns ==
    /\ run.phase = "planRevision"
    /\ run' = RearmWaiter([run EXCEPT !.planSpecStatus = "generated",
                                      !.planSpecVersion = run.planVersion,
                                      !.phase = "approval"])
    /\ UNCHANGED <<consecutiveFailures, pausedDueToFailures>>
    /\ UNCHANGED <<schedVars, lifeVars, loopVars, planVars, metricsVars>>

\* The revision stream yields an error message or aborts.
PlanRevisionThrows(err) ==
    /\ run.phase = "planRevision"
    /\ err \in AgentErrors(run)
    /\ run' = Thrown(run, err)
    /\ UNCHANGED <<consecutiveFailures, pausedDueToFailures>>
    /\ UNCHANGED <<schedVars, lifeVars, loopVars, planVars, metricsVars>>

\* updateFeaturePlanSpec(status approved) is done: the implementation tasks
\* of the approved plan start.
PlanSpecApproved ==
    /\ run.phase = "planApproving"
    /\ run' = [run EXCEPT !.planSpecStatus = "approved",
                          !.tasksStarted = TRUE,
                          !.phase = "tasks"]
    /\ UNCHANGED <<consecutiveFailures, pausedDueToFailures>>
    /\ UNCHANGED <<schedVars, lifeVars, loopVars, planVars, metricsVars>>

\* The agent work of runAgent ends normally: the stream of a run without a
\* plan, or the implementation tasks of an approved plan.  followUpFeature
\* goes from it straight to its final status.
RunAgentReturns ==
    /\ run.phase \in {"agent", "tasks"}
    /\ run' = [run EXCEPT !.output = TRUE,
                          !.phase = IF run.entry = "followUpFeature"
                                    THEN "finalStatus" ELSE "agentDone"]
    /\ UNCHANGED <<consecutiveFailures, pausedDueToFailures>>
    /\ UNCHANGED <<schedVars, lifeVars, loopVars, planVars, metricsVars>>

\* The phases in which a runAgent call of the run is open.
RunAgentPhases ==
    {"agent", "planQualityRevision", "planGenerated", "approval", "planRevision",
     "planApproving", "tasks", "pipelineAgent", "qualityFix", "judgeFix"}

\* The debounced write of runAgent fires after text was streamed:
\* agent-output.md is written while the call is still open.
AgentOutputWritten ==
    /\ run.phase \in RunAgentPhases
    /\ ~run.output
    /\ run' = [run EXCEPT !.output = TRUE]
    /\ UNCHANGED <<consecutiveFailures, pausedDueToFailures>>
    /\ UNCHANGED <<schedVars, lifeVars, loopVars, planVars, metricsVars>>

\* The agent work of runAgent throws.
RunAgentThrows(err) ==
    /\ run.phase \in {"agent", "tasks"}
    /\ err \in AgentErrors(run)
    /\ run' = Thrown(run, err)
    /\ UNCHANGED <<consecutiveFailures, pausedDueToFailures>>
    /\ UNCHANGED <<schedVars, lifeVars, loopVars, planVars, metricsVars>>

\* The names of the quality checks, in the order of runQualityChecks.
QualityCheckNames == <<"Lint", "Type check", "Tests", "Build">>

\* Never stop: every check is executed whatever the earlier ones gave.
ContinuesAfterAlways(o) == TRUE

\* Whether runQualityChecks goes on to check i + 1 after check i ended with
\* outcome o: it breaks out of its loop at the first failing check.
ContinuesAfter(o) == o = "pass"

\* The loop of runQualityChecks from check i on: outcomes[i] is what command
\* i gives when it is executed, going says whether the loop has not hit its
\* break.  A check reached by the loop is executed and reported pass or fail;
\* the checks after a failure are reported skipped without being executed.
RECURSIVE QualityLoop(_, _, _)
QualityLoop(outcomes, i, going) ==
    IF i > Len(outcomes)
    THEN << >>
    ELSE <<IF going THEN outcomes[i] ELSE "skipped">>
         \o QualityLoop(outcomes, i + 1, going /\ ContinuesAfter(outcomes[i]))

\* runQualityChecks: the reported status of each check, and allPassed.
RunQualityChecks(outcomes) ==
    LET results == QualityLoop(outcomes, 1, TRUE)
    IN  [results |-> results,
         passed |-> \A i \in 1..Len(results) : results[i] # "fail"]

\* What the four commands can give.
CheckOutcomes == [1..Len(QualityCheckNames) -> {"pass", "fail"}]

\* The checks recorded for a feature with skipTests: none is executed.
SkippedChecks == [i \in 1..Len(QualityCheckNames) |-> "skipped"]

\* The verification phase is over: the final status is written next.
VerificationDone(r) == [r EXCEPT !.verificationDone = TRUE, !.phase = "finalStatus"]

\* After the quality loop: judgePassed = true, and the judge is asked only
\* when the quality gates passed.
JudgeStage(r) ==
    IF r.qualityPassed
    THEN [r EXCEPT !.judgePassed = TRUE, !.phase = "judge"]
    ELSE VerificationDone([r EXCEPT !.judgePassed = TRUE])

\* The quality-fix loop without its bound.
QualityFixLoopUnbounded(r) ==
    IF ~r.qualityPassed
    THEN [r EXCEPT !.qualityFixes = @ + 1, !.phase = "qualityFix"]
    ELSE JudgeStage(r)

\* The head of the quality-fix loop, as the bound lets it run.
QualityFixLoop(r) ==
    IF ~r.qualityPassed /\ r.qualityFixes < MAX_QUALITY_FIX_ATTEMPTS
    THEN [r EXCEPT !.qualityFixes = @ + 1, !.phase = "qualityFix"]
    ELSE JudgeStage(r)

\* The head of the judge revision loop.
JudgeLoop(r) ==
    IF ~r.judgePassed /\ r.judgeRevisions < MAX_JUDGE_REVISIONS
    THEN [r EXCEPT !.judgeRevisions = @ + 1, !.phase = "judgeFix"]
    ELSE VerificationDone(r)

\* executeFeature after its pipeline stage: with skipTests the four checks
\* are recorded as skipped and count as passed, otherwise runQualityChecks
\* is started.
StartVerification(r) ==
    IF r.skipTests
    THEN JudgeStage([r EXCEPT !.checks = SkippedChecks, !.qualityPassed = TRUE])
    ELSE [r EXCEPT !.phase = "qualityChecks"]

\* executeFeature after runAgent: with pipeline steps configured,
\* executePipelineSteps writes the step's status and starts the step's agent;
\* without, the verification starts.
ExecuteFeatureAfterAgent ==
    /\ run.phase = "agentDone"
    /\ run' = IF run.hasPipeline
              THEN [run EXCEPT !.status = "pipeline_step",
                               !.pipelineStarted = TRUE,
                               !.phase = "pipelineAgent"]
              ELSE StartVerification(run)
    /\ UNCHANGED <<consecutiveFailures, pausedDueToFailures>>
    /\ UNCHANGED <<schedVars, lifeVars, loopVars, planVars, metricsVars>>

\* resumeFromPipelineStep: executePipelineSteps from the step the feature
\* was left in.  The call passes no roleModels: the step's status is written
\* and roleModels.worker.model throws a TypeError before the step's agent
\* is called.
ResumeFromPipelineStepStarts ==
    /\ run.phase = "entered"
    /\ run.entry = "resumeFromPipelineStep"
    /\ run' = Thrown([run EXCEPT !.status = "pipeline_step",
                                 !.pipelineStarted = TRUE], "type_error")
    /\ UNCHANGED <<consecutiveFailures, pausedDueToFailures>>
    /\ UNCHANGED <<schedVars, lifeVars, loopVars, planVars, metricsVars>>

\* The agent of the pipeline step ends: executeFeature goes on to the
\* verification.
PipelineStepReturns ==
    /\ run.phase = "pipelineAgent"
    /\ run' = StartVerification([run EXCEPT !.output = TRUE])
    /\ UNCHANGED <<consecutiveFailures, pausedDueToFailures>>
    /\ UNCHANGED <<schedVars, lifeVars, loopVars, planVars, metricsVars>>

\* The agent of the pipeline step throws.
PipelineStepThrows(err) ==
    /\ run.phase = "pipelineAgent"
    /\ err \in AgentErrors(run)
    /\ run' = Thrown(run, err)
    /\ UNCHANGED <<consecutiveFailures, pausedDueToFailures>>
    /\ UNCHANGED <<schedVars, lifeVars, loopVars, planVars, metricsVars>>

\* runQualityChecks returns (its commands take no abort signal), and the
\* quality-fix loop decides.
QualityChecksReturn(outcomes) ==
    /\ run.phase = "qualityChecks"
    /\ LET q == RunQualityChecks(outcomes)
       IN  run' = QualityFixLoop([run EXCEPT !.checks = q.results,
                                             !.gatesRun = TRUE,
                                             !.qualityPassed = q.passed])
    /\ UNCHANGED <<consecutiveFailures, pausedDueToFailures>>
    /\ UNCHANGED <<schedVars, lifeVars, loopVars, planVars, metricsVars>>

\* The fix revision (runAgent with planningMode skip) ends: the checks run again.
QualityFixReturns ==
    /\ run.phase = "qualityFix"
    /\ run' = [run EXCEPT !.output = TRUE, !.phase = "qualityChecks"]
    /\ UNCHANGED <<consecutiveFailures, pausedDueToFailures>>
    /\ UNCHANGED <<schedVars, lifeVars, loopVars, planVars, metricsVars>>

\* The fix revision throws.
QualityFixThrows(err) ==
    /\ run.phase = "qualityFix"
    /\ err \in AgentErrors(run)
    /\ run' = Thrown(run, err)
    /\ UNCHANGED <<consecutiveFailures, pausedDueToFailures>>
    /\ UNCHANGED <<schedVars, lifeVars, loopVars, planVars, metricsVars>>

\* The verdicts of the judge.
Verdicts == {"pass", "revise", "fail"}

\* runJudgeEvaluation returns a verdict (it catches every error and its
\* query takes no abort signal), and the judge loop decides.
JudgeReturns(verdict) ==
    /\ run.phase = "judge"
    /\ run' = JudgeLoop([run EXCEPT !.judged = TRUE,
                                    !.judgePassed = (verdict = "pass")])
    /\ UNCHANGED <<consecutiveFailures, pausedDueToFailures>>
    /\ UNCHANGED <<schedVars, lifeVars, loopVars, planVars, metricsVars>>

\* The judge revision (runAgent with planningMode skip) ends: the judge is
\* asked again.
JudgeFixReturns ==
    /\ run.phase = "judgeFix"
    /\ run' = [run EXCEPT !.output = TRUE, !.phase = "judge"]
    /\ UNCHANGED <<consecutiveFailures, pausedDueToFailures>>
    /\ UNCHANGED <<schedVars, lifeVars, loopVars, planVars, metricsVars>>

\* The judge revision throws.
JudgeFixThrows(err) ==
    /\ run.phase = "judgeFix"
    /\ err \in AgentErrors(run)
    /\ run' = Thrown(run, err)
    /\ UNCHANGED <<consecutiveFailures, pausedDueToFailures>>
    /\ UNCHANGED <<schedVars, lifeVars, loopVars, planVars, metricsVars>>

\* passedGates of executeFeature.
PassedGates(r) == r.qualityPassed /\ r.judgePassed

\* The final status each entry point computes: executeFeature from the gates
\* and skipTests, the others from skipTests alone.
FinalStatus(r) ==
    IF r.entry = "executeFeature"
    THEN IF PassedGates(r) /\ ~r.skipTests THEN "verified" ELSE "waiting_approval"
    ELSE IF r.skipTests THEN "waiting_approval" ELSE "verified"

\* updateFeatureStatus(finalStatus) of executeFeature, followUpFeature and
\* resumeFromPipelineStep.
FinalStatusWritten ==
    /\ run.phase = "finalStatus"
    /\ run' = [run EXCEPT !.status = FinalStatus(run), !.phase = "completing"]
    /\ UNCHANGED <<consecutiveFailures, pausedDueToFailures>>
    /\ UNCHANGED <<schedVars, lifeVars, loopVars, planVars, metricsVars>>

\* followUpFeature: updateFeatureStatus(in_progress), then runAgent with
\* planningMode skip.
FollowUpInProgress ==
    /\ run.phase = "entered"
    /\ run.entry = "followUpFeature"
    /\ run' = [run EXCEPT !.status = "in_progress", !.phase = "agent"]
    /\ UNCHANGED <<consecutiveFailures, pausedDueToFailures>>
    /\ UNCHANGED <<schedVars, lifeVars, loopVars, planVars, metricsVars>>

\* resumePipelineFeature when the step of the feature's status is no longer
\* configured: the final status is written and a passing completion emitted,
\* without registering in runningFeatures.
ResumePipelineFeatureStepMissing ==
    /\ run.phase = "entered"
    /\ run.entry = "resumePipelineFeature"
    /\ run' = [run EXCEPT !.status = FinalStatus(run),
                          !.completion = "passed",
                          !.phase = "done"]
    /\ UNCHANGED <<consecutiveFailures, pausedDueToFailures>>
    /\ UNCHANGED <<schedVars, lifeVars, loopVars, planVars, metricsVars>>

\* trackFailureAndCheckPause followed by signalShouldPause when it returns
\* true: the entry is pushed, kept says how many of the earlier entries are
\* still inside the failure window, fatal whether the error's type is
\* quota_exhausted or rate_limit.
TrackFailure(kept, fatal) ==
    /\ kept \in 0..consecutiveFailures
    /\ consecutiveFailures' = kept + 1
    /\ pausedDueToFailures' =
           (pausedDueToFailures \/ kept + 1 >= CONSECUTIVE_FAILURE_THRESHOLD \/ fatal)

\* recordSuccess.
RecordSuccess ==
    /\ consecutiveFailures' = 0
    /\ UNCHANGED pausedDueToFailures

\* The end of the try block: executeFeature records a success or a
\* quality_gate failure and emits the completion with passes = passedGates;
\* followUpFeature and resumeFromPipelineStep emit a passing completion
\* (followUpFeature also records a success).
RunCompletes(kept) ==
    /\ run.phase = "completing"
    /\ IF run.entry = "executeFeature" /\ ~PassedGates(run)
       THEN /\ TrackFailure(kept, FALSE)
            /\ run' = [run EXCEPT !.completion = "failed",
                                  !.failureTracked = TRUE,
                                  !.phase = "done"]
       ELSE /\ kept = 0
            /\ IF run.entry = "resumeFromPipelineStep"
               THEN UNCHANGED <<consecutiveFailures, pausedDueToFailures>>
               ELSE RecordSuccess
            /\ run' = [run EXCEPT !.completion = "passed", !.phase = "done"]
    /\ UNCHANGED <<schedVars, lifeVars, loopVars, planVars, metricsVars>>

\* No error is taken for a cancellation.
CaughtNeverCancellation(r) == FALSE

\* Whether the catch clause of the entry point treats the error as the
\* user's cancellation.
CaughtAsCancellation(r) ==
    IF r.entry = "followUpFeature" THEN IsCancellation(r.error) ELSE IsAbort(r.error)

\* The catch clause.  Cancellation: executeFeature and resumeFromPipelineStep
\* emit a completion 'stopped by user', followUpFeature does nothing.
\* Otherwise executeFeature writes backlog, emits auto_mode_error and tracks
\* the failure; resumeFromPipelineStep writes backlog and emits
\* auto_mode_error; followUpFeature emits auto_mode_error and tracks the
\* failure.
RunCatch(kept, fatal) ==
    /\ run.phase = "caught"
    /\ IF CaughtAsCancellation(run)
       THEN /\ kept = 0
            /\ ~fatal
            /\ run' = [run EXCEPT !.completion = IF run.entry = "followUpFeature"
                                                 THEN @ ELSE "stopped",
                                  !.phase = "done"]
            /\ UNCHANGED <<consecutiveFailures, pausedDueToFailures>>
       ELSE /\ run' = [run EXCEPT !.status = IF run.entry = "followUpFeature"
                                             THEN @ ELSE "backlog",
                                  !.errorEvent = TRUE,
                                  !.failureTracked = (run.entry # "resumeFromPipelineStep"),
                                  !.phase = "done"]
            /\ IF run.entry = "resumeFromPipelineStep"
               THEN /\ kept = 0
                    /\ ~fatal
                    /\ UNCHANGED <<consecutiveFailures, pausedDueToFailures>>
               ELSE TrackFailure(kept, fatal)
    /\ UNCHANGED <<schedVars, lifeVars, loopVars, planVars, metricsVars>>

\* The runs an entry point can register: executeFeature on a feature of the
\* backlog, with or without a planning mode that produces a plan, approval
\* required or not; followUpFeature on a feature waiting for approval;
\* the two pipeline resumes on a feature left in a pipeline step, which
\* resumePipelineFeature reaches only with agent-output.md on disk.
InitialRuns ==
    {InitialRun("executeFeature", planning, approval, skipTests, hasPipeline, "backlog", output0) :
        planning \in BOOLEAN, approval \in BOOLEAN, skipTests \in BOOLEAN,
        hasPipeline \in BOOLEAN, output0 \in BOOLEAN}
    \cup {InitialRun("followUpFeature", FALSE, FALSE, skipTests, FALSE, "waiting_approval", output0) :
        skipTests \in BOOLEAN, output0 \in BOOLEAN}
    \cup {InitialRun(e, FALSE, FALSE, skipTests, TRUE, "pipeline_step", TRUE) :
        e \in {"resumeFromPipelineStep", "resumePipelineFeature"}, skipTests \in BOOLEAN}

\* A run just registered by its entry point, in a service that recorded
\* fewer failures than the threshold and is not paused.
RunInit ==
    /\ run \in {r \in InitialRuns : r.requiresApproval => r.planning}
    /\ consecutiveFailures \in 0..(CONSECUTIVE_FAILURE_THRESHOLD - 1)
    /\ pausedDueToFailures = FALSE
    /\ NothingRunning
    /\ contextExists = [f \in Features |-> FALSE]
    /\ fstatus = [f \in Features |-> "backlog"]
    /\ NothingScheduled
    /\ NoLoop
    /\ NoPlanSpecUpdate
    /\ NoMetricsRun

RunNext ==
    \/ RunStopFeature
    \/ ExecuteFeatureInProgress
    \/ \E issues \in BOOLEAN : RunAgentSpecDetected(issues)
    \/ \E res \in {"null", "issues", "clean"} : RevisePlanForQualityReturns(res)
    \/ \E err \in {"agent_error", "aborted"} : RevisePlanForQualityThrows(err)
    \/ PlanSpecGenerated
    \/ \E d \in PlanDecisions : ApprovalResolved(d)
    \/ ApprovalTimedOut
    \/ ApprovalCancelled
    \/ PlanRevisionReturns
    \/ \E err \in {"agent_error", "aborted"} : PlanRevisionThrows(err)
    \/ PlanSpecApproved
    \/ RunAgentReturns
    \/ AgentOutputWritten
    \/ \E err \in {"agent_error", "aborted"} : RunAgentThrows(err)
    \/ ExecuteFeatureAfterAgent
    \/ ResumeFromPipelineStepStarts
    \/ PipelineStepReturns
    \/ \E err \in {"agent_error", "aborted"} : PipelineStepThrows(err)
    \/ \E outcomes \in CheckOutcomes : QualityChecksReturn(outcomes)
    \/ QualityFixReturns
    \/ \E err \in {"agent_error", "aborted"} : QualityFixThrows(err)
    \/ \E verdict \in Verdicts : JudgeReturns(verdict)
    \/ JudgeFixReturns
    \/ \E err \in {"agent_error", "aborted"} : JudgeFixThrows(err)
    \/ FinalStatusWritten
    \/ FollowUpInProgress
    \/ ResumePipelineFeatureStepMissing
    \/ \E kept \in 0..CONSECUTIVE_FAILURE_THRESHOLD : RunCompletes(kept)
    \/ \E kept \in 0..CONSECUTIVE_FAILURE_THRESHOLD, fatal \in BOOLEAN : RunCatch(kept, fatal)

SpecRun == RunInit /\ [][RunNext]_vars

\* ----------------------------------------------------------------------
\* Claims about one run.
\* ----------------------------------------------------------------------

\* C11: in the approval loop each rejection with feedback triggers exactly
\* one revision call to the planner, after which exactly one new waiter is
\* registered and the plan version is one higher: one revision call per
\* rejection at all times, and whenever the run waits for an approval it has
\* registered one waiter more than it got rejections and its plan version
\* (local and persisted) is the generated version plus the rejections.
C11_OneRevisionOneWaiterPerRejection ==
    /\ run.revisionCalls = run.feedbackRejections
    /\ run.phase = "planRevision" =>
           /\ run.waiter = "none"
           /\ run.waiters = run.feedbackRejections
           /\ run.planVersion = 1 + run.qualityRevisionCount + run.feedbackRejections
    /\ run.phase = "approval" =>
           /\ run.waiters = run.feedbackRejections + 1
           /\ run.planVersion = 1 + run.qualityRevisionCount + run.feedbackRejections
           /\ run.planSpecVersion = run.planVersion

\* C11 witness: the run waits for the third approval, after two rejections
\* with feedback and their two revisions.
C11_Witness ==
    /\ run.phase = "approval"
    /\ run.waiter = "pending"
    /\ run.feedbackRejections = 2
    /\ run.revisionCalls = 2
    /\ run.waiters = 3

C13_PlanQualityRevisionsBounded ==
    /\ run.qualityRevisionCount <= MAX_PLAN_QUALITY_REVISIONS
    /\ run.phase = "planQualityRevision" =>
           /\ run.qualityIssues
           /\ run.qualityRevisionCount < MAX_PLAN_QUALITY_REVISIONS
    /\ run.planSpecStatus # "pending" =>
           /\ run.planSpecQualityIssues = run.qualityIssues
           /\ run.phase \notin {"agent", "planQualityRevision", "planGenerated"}
    /\ run.tasksStarted => run.planSpecStatus = "approved"

\* C13 witness: the implementation tasks run on a plan that still had issues
\* after two automatic revisions, and the plan spec records them.
C13_Witness ==
    /\ run.phase = "tasks"
    /\ run.qualityRevisionCount = MAX_PLAN_QUALITY_REVISIONS
    /\ run.qualityIssues
    /\ run.planSpecQualityIssues
    /\ ~run.stopped

\* The index of the first failing command of outcomes, 0 when none fails.
FirstFailure(outcomes) ==
    IF \E i \in DOMAIN outcomes : outcomes[i] = "fail"
    THEN CHOOSE i \in DOMAIN outcomes :
             /\ outcomes[i] = "fail"
             /\ \A j \in DOMAIN outcomes : j < i => outcomes[j] = "pass"
    ELSE 0

\* C14: the quality gate runs lint, type check, tests and build in this order
\* and stops at the first failure: whatever the four commands would give, the
\* checks before the first failing one are reported pass, that one fail, the
\* later ones skipped (not executed), and passed is true only if every check
\* passed.  With lint passing and the type check failing: Tests and Build
\* reported skipped, passed false.  Every result a run records is of this form.
C14_QualityGateStopsAtFirstFailure ==
    /\ QualityCheckNames = <<"Lint", "Type check", "Tests", "Build">>
    /\ \A outcomes \in CheckOutcomes :
           LET q == RunQualityChecks(outcomes)
               k == FirstFailure(outcomes)
           IN  /\ Len(q.results) = Len(QualityCheckNames)
               /\ \A i \in DOMAIN outcomes :
                      q.results[i] = IF k = 0 \/ i < k THEN "pass"
                                     ELSE IF i = k THEN "fail" ELSE "skipped"
               /\ q.passed <=> \A i \in DOMAIN outcomes : outcomes[i] = "pass"
               /\ (outcomes[1] = "pass" /\ outcomes[2] = "fail") =>
                      /\ q.results = <<"pass", "fail", "skipped", "skipped">>
                      /\ ~q.passed
    /\ run.gatesRun =>
           /\ \E outcomes \in CheckOutcomes : run.checks = RunQualityChecks(outcomes).results
           /\ run.qualityPassed <=> \A i \in DOMAIN run.checks : run.checks[i] = "pass"

\* C14 witness: a run whose quality gate had lint passing and the type check
\* failing.
C14_Witness ==
    /\ run.gatesRun
    /\ run.checks = <<"pass", "fail", "skipped", "skipped">>
    /\ ~run.qualityPassed

\* The phases of the verification of executeFeature.
VerificationPhases == {"qualityChecks", "qualityFix", "judge", "judgeFix"}

\* How many awaited calls the verification can still make at most.
VerificationRank(r) ==
    CASE r.phase = "qualityChecks" ->
             2 * MAX_JUDGE_REVISIONS + 2 + 2 * (MAX_QUALITY_FIX_ATTEMPTS - r.qualityFixes) + 1
      [] r.phase = "qualityFix" ->
             2 * MAX_JUDGE_REVISIONS + 2 + 2 * (MAX_QUALITY_FIX_ATTEMPTS - r.qualityFixes) + 2
      [] r.phase = "judge" -> 2 * (MAX_JUDGE_REVISIONS - r.judgeRevisions) + 1
      [] r.phase = "judgeFix" -> 2 * (MAX_JUDGE_REVISIONS - r.judgeRevisions) + 2
      [] OTHER -> 0

\* C15: the quality-fix loop makes at most MAX_QUALITY_FIX_ATTEMPTS fix
\* revisions and the judge loop at most MAX_JUDGE_REVISIONS revisions; when a
\* bound is reached with the gates or the judge still failing, the run goes
\* on to its final status and ends marked failing (waiting_approval, a
\* completion with passes false).  The verification always terminates when
\* each of its calls does: every return of a call strictly lowers the number
\* of calls that can still follow.
C15_VerificationLoopsBounded ==
    /\ [](/\ run.qualityFixes <= MAX_QUALITY_FIX_ATTEMPTS
          /\ run.judgeRevisions <= MAX_JUDGE_REVISIONS
          /\ (run.verificationDone /\ ~PassedGates(run)) =>
                 /\ run.phase \in {"finalStatus", "completing", "done"}
                 /\ run.error = "none"
                 /\ run.phase \in {"completing", "done"} => run.status = "waiting_approval"
                 /\ run.phase = "done" => run.completion = "failed")
    /\ [][(run.phase \in VerificationPhases /\ ~RunStopFeature) =>
              /\ VerificationRank(run') < VerificationRank(run)
              /\ VerificationRank(run') >= 0]_vars

\* C15 witness: a run that ended failing after two fix revisions could not
\* make the quality gates pass.
C15_Witness ==
    /\ run.phase = "done"
    /\ run.qualityFixes = MAX_QUALITY_FIX_ATTEMPTS
    /\ ~run.qualityPassed
    /\ run.verificationDone
    /\ run.status = "waiting_approval"
    /\ run.completion = "failed"
    /\ ~run.stopped

\* C16 (as claimed): on every path (fresh run, resume, pipeline resume,
\* follow-up) a run that completes without an error leaves the status
\* verified only if in this run the quality gates passed, the judge gave
\* pass and skipTests is false; every other completion leaves
\* waiting_approval.
C16_VerifiedOnlyAfterGatesAndJudge ==
    (run.phase \in {"completing", "done"} /\ run.error = "none") =>
        IF /\ run.gatesRun
           /\ run.qualityPassed
           /\ run.judged
           /\ run.judgePassed
           /\ ~run.skipTests
        THEN run.status = "verified"
        ELSE run.status = "waiting_approval"

\* C17 (as claimed): in a fresh run no pipeline step starts before the
\* quality-fix loop and the judge loop have finished.
C17_PipelineAfterVerification ==
    (run.entry = "executeFeature" /\ run.pipelineStarted) => run.verificationDone

\* C18 (as claimed): a run of any entry point that ends with an error that is
\* not a cancellation, without having been stopped, leaves the persisted
\* status backlog and has emitted an error event.
C18_ErrorRevertsToBacklog ==
    (run.phase = "done" /\ run.error = "agent_error" /\ ~run.stopped) =>
        /\ run.status = "backlog"
        /\ run.errorEvent

\* C19 (as claimed): after stopFeature the stopped run makes no further
\* change to the persisted status, in whatever phase it was stopped; here for
\* a run stopped while its quality gates or its judge were running.
C19_NoStatusChangeAfterStop ==
    (run.stopped /\ run.phaseAtStop \in {"qualityChecks", "judge"}) =>
        run.status = run.statusAtStop

\* C20 (as claimed): a run ended by the user's cancellation (the agent call
\* aborted, the approval wait cancelled, or the run stopped during its
\* quality gates) is reported as a neutral 'stopped' completion and adds no
\* entry to the failure tracking.
C20_CancellationIsNeutral ==
    (/\ run.stopped
     /\ run.phase = "done"
     /\ \/ run.error \in {"aborted", "approval_cancelled"}
        \/ run.phaseAtStop = "qualityChecks" /\ run.error = "none") =>
        /\ run.completion = "stopped"
        /\ ~run.failureTracked

\* The statuses a finished feature rests in.
TerminalStatuses == {"verified", "waiting_approval", "backlog"}

\* C21 (as claimed): once a run has ended (by success, failure or stop) the
\* feature has a terminal status, or an in_progress or pipeline-step status
\* together with agent-output.md on disk.
C21_NeverStuckWithoutTrace ==
    run.phase = "done" =>
        \/ run.status \in TerminalStatuses
        \/ run.status \in {"in_progress", "pipeline_step"} /\ run.output

\* C24 (as claimed): a resume from a pipeline step that is still configured,
\* with saved agent output, that is not stopped and whose agent calls do not
\* fail, ends with a terminal success status and a passing completion.
C24_PipelineResumeCompletes ==
    (/\ run.entry = "resumeFromPipelineStep"
     /\ run.phase = "done"
     /\ ~run.stopped
     /\ run.error \notin {"agent_error", "aborted"}) =>
        /\ run.status \in {"verified", "waiting_approval"}
        /\ run.completion = "passed"

\* ------------------------------------------------------------------------
\* PART 4: the auto loop, the execution state file and the resume of
\* interrupted features after a restart.  Every feature run of this part is
\* reduced to its registration, its dispatch and its outcome; all failures
\* of one behaviour fall inside one failure window.
\* ------------------------------------------------------------------------

\* secureFs.access of agent-output.md never succeeding.
HasContextNever(f) == FALSE

\* secureFs.access of the feature's agent-output.md.
HasContext(f) == lfoutput[f]

\* loadPendingFeatures: only these statuses are selected.
PendingFeatures == {f \in LoopFeatures : lfstatus[f] \in {"pending", "ready", "backlog"}}

\* The keys of this.runningFeatures.
Registered == {f \in LoopFeatures : reg[f] # "none"}

\* A run of f ends; resumeInterruptedFeatures, which awaits each
\* resumeFeature, goes on to the next feature.
ResumeAwaited(f) ==
    IF resumePc = "waiting" /\ Head(resumeQueue) = f
    THEN /\ resumePc' = "next"
         /\ resumeQueue' = Tail(resumeQueue)
    ELSE UNCHANGED <<resumePc, resumeQueue>>

\* startAutoLoop: it throws 'Auto mode is already running' while
\* autoLoopRunning is set; else it resets the failure tracking, saves the
\* execution state and calls runAutoLoop.
StartAutoLoop(cap) ==
    /\ maxConcurrency \in {0, cap}
    /\ ~autoLoopRunning
    /\ sleeping + loading + staleSleeping + staleLoading < MaxLoops
    /\ consecutiveFailures' = 0
    /\ pausedDueToFailures' = FALSE
    /\ autoLoopRunning' = TRUE
    /\ autoLoopAbortController' = TRUE
    /\ maxConcurrency' = cap
    /\ executionState' = TRUE
    /\ runningFeatureIds' = Registered
    /\ sleeping' = 1
    /\ loading' = 0
    /\ staleSleeping' = staleSleeping + sleeping
    /\ staleLoading' = staleLoading + loading
    /\ failuresInRow' = 0
    /\ pausedEmitted' = FALSE
    /\ stopPc' = IF stopPc = "stopped" THEN "idle" ELSE stopPc
    /\ UNCHANGED <<savesInFlight, clearsInFlight, reg, gaps, lfstatus, lfoutput,
                   atRestart, resumePc, resumeQueue, withContext>>
    /\ UNCHANGED <<schedVars, lifeVars, run, planVars, metricsVars>>

\* runAutoLoop: the loop condition and the capacity check after a sleep, in
\* an invocation made by the last startAutoLoop or (stale) by an earlier one.
RunAutoLoopIterates(stale) ==
    /\ IF stale THEN staleSleeping > 0 ELSE sleeping > 0
    /\ IF autoLoopRunning /\ autoLoopAbortController
       THEN /\ Cardinality(Registered) < maxConcurrency
            /\ IF stale
               THEN /\ staleSleeping' = staleSleeping - 1
                    /\ staleLoading' = staleLoading + 1
                    /\ UNCHANGED <<sleeping, loading>>
               ELSE /\ sleeping' = sleeping - 1
                    /\ loading' = loading + 1
                    /\ UNCHANGED <<staleSleeping, staleLoading>>
            /\ UNCHANGED autoLoopRunning
       ELSE /\ autoLoopRunning' = FALSE
            /\ IF stale
               THEN staleSleeping' = staleSleeping - 1 /\ UNCHANGED sleeping
               ELSE sleeping' = sleeping - 1 /\ UNCHANGED staleSleeping
            /\ UNCHANGED <<loading, staleLoading>>
    /\ UNCHANGED <<autoLoopAbortController, maxConcurrency, executionState, runningFeatureIds, savesInFlight,
                   clearsInFlight, stopPc, reg, gaps, lfstatus, lfoutput, atRestart,
                   resumePc, resumeQueue, withContext, failuresInRow, pausedEmitted>>
    /\ UNCHANGED <<schedVars, lifeVars, runVars, planVars, metricsVars>>

\* runAutoLoop after loadPendingFeatures: the next feature that is not
\* registered is started with executeFeature (isAutoMode), which registers it
\* before its first await.
LoadPendingFeaturesReturns(stale) ==
    /\ IF stale
       THEN /\ staleLoading > 0
            /\ staleLoading' = staleLoading - 1
            /\ staleSleeping' = staleSleeping + 1
            /\ UNCHANGED <<sleeping, loading>>
       ELSE /\ loading > 0
            /\ loading' = loading - 1
            /\ sleeping' = sleeping + 1
            /\ UNCHANGED <<staleSleeping, staleLoading>>
    /\ IF PendingFeatures \ Registered = {}
       THEN UNCHANGED reg
       ELSE \E f \in PendingFeatures \ Registered : reg' = [reg EXCEPT ![f] = "saving"]
    /\ UNCHANGED <<autoLoopRunning, autoLoopAbortController, maxConcurrency, executionState, runningFeatureIds,
                   savesInFlight, clearsInFlight, stopPc, gaps, lfstatus, lfoutput,
                   atRestart, resumePc, resumeQueue, withContext, failuresInRow,
                   pausedEmitted>>
    /\ UNCHANGED <<schedVars, lifeVars, runVars, planVars, metricsVars>>

\* executeFeature (isAutoMode) after the saveExecutionState and the
\* contextExists it awaits at entry: with context the entry is deleted and
\* resumeFeature takes over (the finally block runs at once); without, the
\* feature is started from zero.
ExecuteFeatureContextChecked(f) ==
    /\ reg[f] = "saving"
    /\ executionState' = TRUE
    /\ runningFeatureIds' = Registered
    /\ IF HasContext(f)
       THEN /\ gaps[f] < MaxGaps
            /\ reg' = [reg EXCEPT ![f] = "none"]
            /\ gaps' = [gaps EXCEPT ![f] = @ + 1]
            /\ savesInFlight' = (savesInFlight \/ autoLoopRunning)
            /\ UNCHANGED lfstatus
       ELSE /\ lfstatus' = [lfstatus EXCEPT ![f] = "in_progress"]
            /\ reg' = [reg EXCEPT ![f] = "running"]
            /\ UNCHANGED <<gaps, savesInFlight>>
    /\ UNCHANGED <<autoLoopRunning, autoLoopAbortController, maxConcurrency, sleeping, loading,
                   staleSleeping, staleLoading,
                   clearsInFlight, stopPc, lfoutput, atRestart, resumePc, resumeQueue,
                   withContext, failuresInRow, pausedEmitted>>
    /\ UNCHANGED <<schedVars, lifeVars, runVars, planVars, metricsVars>>

\* resumeFeature after its reads: a pipeline status goes to
\* resumePipelineFeature (step still configured or not), saved output to
\* executeFeatureWithContext, nothing saved to executeFeature from zero.  The
\* entry that is called throws when the feature is registered.
ResumeFeatureDispatches(f, stepExists) ==
    /\ gaps[f] > 0
    /\ gaps' = [gaps EXCEPT ![f] = @ - 1]
    /\ LET pipeline == lfstatus[f] = "pipeline_step"
       IN  IF pipeline /\ HasContext(f) /\ ~stepExists
           THEN /\ lfstatus' = [lfstatus EXCEPT ![f] = "verified"]
                /\ failuresInRow' = 0
                /\ ResumeAwaited(f)
                /\ UNCHANGED <<reg, withContext>>
           ELSE IF f \in Registered
           THEN /\ ResumeAwaited(f)
                /\ UNCHANGED <<lfstatus, reg, withContext, failuresInRow>>
           ELSE /\ UNCHANGED <<resumePc, resumeQueue, failuresInRow>>
                /\ IF pipeline /\ HasContext(f)
                   THEN /\ reg' = [reg EXCEPT ![f] = "rp_step"]
                        /\ UNCHANGED <<lfstatus, withContext>>
                   ELSE /\ reg' = [reg EXCEPT ![f] = "running"]
                        /\ lfstatus' = [lfstatus EXCEPT ![f] = "in_progress"]
                        /\ withContext' = IF HasContext(f) THEN withContext \cup {f}
                                          ELSE withContext
    /\ UNCHANGED <<autoLoopRunning, autoLoopAbortController, maxConcurrency, sleeping, loading,
                   staleSleeping, staleLoading,
                   executionState, runningFeatureIds, savesInFlight, clearsInFlight, stopPc, lfoutput,
                   atRestart, pausedEmitted>>
    /\ UNCHANGED <<schedVars, lifeVars, runVars, planVars, metricsVars>>

\* resumeFromPipelineStep: executePipelineSteps throws at its first step, the
\* catch block writes backlog and emits auto_mode_error without tracking the
\* failure, the finally block deletes the entry.
ResumeFromPipelineStepFails(f) ==
    /\ reg[f] = "rp_step"
    /\ lfstatus' = [lfstatus EXCEPT ![f] = "backlog"]
    /\ reg' = [reg EXCEPT ![f] = "none"]
    /\ failuresInRow' = IF failuresInRow < CONSECUTIVE_FAILURE_THRESHOLD
                              THEN failuresInRow + 1 ELSE failuresInRow
    /\ ResumeAwaited(f)
    /\ UNCHANGED <<autoLoopRunning, autoLoopAbortController, maxConcurrency, sleeping, loading,
                   staleSleeping, staleLoading,
                   executionState, runningFeatureIds, savesInFlight, clearsInFlight, stopPc, gaps, lfoutput,
                   atRestart, withContext, pausedEmitted>>
    /\ UNCHANGED <<schedVars, lifeVars, runVars, planVars, metricsVars>>

\* executeFeature from the agent's work to its finally block.  A success
\* records a success; a failed quality gate and an exception track a failure,
\* and signalShouldPause, when the pause is not yet signalled, emits
\* auto_mode_paused_failures and calls stopAutoLoop.  The finally block
\* deletes the entry and saves the execution state if the loop is running.
ExecuteFeatureEnds(f, res, fatal, wrote) ==
    /\ reg[f] = "running"
    /\ fatal => res = "error"
    /\ wrote => res = "error" /\ ~lfoutput[f]
    /\ LET shouldPause == \/ consecutiveFailures + 1 >= CONSECUTIVE_FAILURE_THRESHOLD
                          \/ fatal
           pauses == res # "success" /\ shouldPause /\ ~pausedDueToFailures
       IN  /\ lfstatus' = [lfstatus EXCEPT ![f] =
                              CASE res = "success" -> "verified"
                                [] res = "gate_failure" -> "waiting_approval"
                                [] OTHER -> "backlog"]
           /\ lfoutput' = [lfoutput EXCEPT ![f] = @ \/ res # "error" \/ wrote]
           /\ IF res = "success"
              THEN /\ RecordSuccess
                   /\ failuresInRow' = 0
              ELSE /\ TrackFailure(consecutiveFailures, fatal)
                   /\ failuresInRow' = IF failuresInRow < CONSECUTIVE_FAILURE_THRESHOLD
                              THEN failuresInRow + 1 ELSE failuresInRow
           /\ pausedEmitted' = (pausedEmitted \/ pauses)
           /\ autoLoopRunning' = (autoLoopRunning /\ ~pauses)
           /\ autoLoopAbortController' = (autoLoopAbortController /\ ~pauses)
           /\ clearsInFlight' = (clearsInFlight \/ (pauses /\ maxConcurrency # 0))
           /\ reg' = [reg EXCEPT ![f] = "none"]
           /\ savesInFlight' = (savesInFlight \/ (autoLoopRunning /\ ~pauses))
           /\ ResumeAwaited(f)
    /\ UNCHANGED <<maxConcurrency, sleeping, loading,
                   staleSleeping, staleLoading, executionState, runningFeatureIds, stopPc, gaps, atRestart,
                   withContext>>
    /\ UNCHANGED <<schedVars, lifeVars, run, planVars, metricsVars>>

\* stopAutoLoop called by the user, up to its await of clearExecutionState
\* (there is none while this.config is null).
StopAutoLoop ==
    /\ stopPc # "clearing"
    /\ autoLoopRunning' = FALSE
    /\ autoLoopAbortController' = FALSE
    /\ stopPc' = IF maxConcurrency # 0 THEN "clearing" ELSE "stopped"
    /\ UNCHANGED <<maxConcurrency, sleeping, loading,
                   staleSleeping, staleLoading, executionState, runningFeatureIds, savesInFlight, clearsInFlight,
                   reg, gaps, lfstatus, lfoutput, atRestart, resumePc, resumeQueue,
                   withContext, failuresInRow, pausedEmitted>>
    /\ UNCHANGED <<schedVars, lifeVars, runVars, planVars, metricsVars>>

\* The user's stopAutoLoop after clearExecutionState: the file is unlinked
\* and the stop completes.
StopAutoLoopCleared ==
    /\ stopPc = "clearing"
    /\ executionState' = FALSE
    /\ runningFeatureIds' = {}
    /\ stopPc' = IF autoLoopRunning THEN "idle" ELSE "stopped"
    /\ UNCHANGED <<autoLoopRunning, autoLoopAbortController, maxConcurrency, sleeping, loading,
                   staleSleeping, staleLoading,
                   savesInFlight, clearsInFlight, reg, gaps, lfstatus, lfoutput,
                   atRestart, resumePc, resumeQueue, withContext, failuresInRow,
                   pausedEmitted>>
    /\ UNCHANGED <<schedVars, lifeVars, runVars, planVars, metricsVars>>

\* clearExecutionState of the stopAutoLoop that signalShouldPause called.
ClearExecutionState ==
    /\ clearsInFlight
    /\ executionState' = FALSE
    /\ runningFeatureIds' = {}
    /\ clearsInFlight' = FALSE
    /\ UNCHANGED <<autoLoopRunning, autoLoopAbortController, maxConcurrency, sleeping, loading,
                   staleSleeping, staleLoading,
                   savesInFlight, stopPc, reg, gaps, lfstatus, lfoutput, atRestart,
                   resumePc, resumeQueue, withContext, failuresInRow, pausedEmitted>>
    /\ UNCHANGED <<schedVars, lifeVars, runVars, planVars, metricsVars>>

\* saveExecutionState entered from a finally block: its writeFile.
SaveExecutionState ==
    /\ savesInFlight
    /\ executionState' = TRUE
    /\ runningFeatureIds' = Registered
    /\ savesInFlight' = FALSE
    /\ UNCHANGED <<autoLoopRunning, autoLoopAbortController, maxConcurrency, sleeping, loading,
                   staleSleeping, staleLoading,
                   clearsInFlight, stopPc, reg, gaps, lfstatus, lfoutput, atRestart,
                   resumePc, resumeQueue, withContext, failuresInRow, pausedEmitted>>
    /\ UNCHANGED <<schedVars, lifeVars, runVars, planVars, metricsVars>>

\* resumeInterruptedFeatures: the features, in the order readdir lists them,
\* that are in progress or in a pipeline step and have agent output.
InterruptedFeatures ==
    SelectSeq(<<"f1", "f2">>,
              LAMBDA f : lfstatus[f] \in {"in_progress", "pipeline_step"} /\ HasContext(f))

ResumeInterruptedFeatures ==
    /\ resumePc = "idle"
    /\ resumeQueue' = InterruptedFeatures
    /\ resumePc' = IF InterruptedFeatures = << >> THEN "done" ELSE "next"
    /\ UNCHANGED <<autoLoopRunning, autoLoopAbortController, maxConcurrency, sleeping, loading,
                   staleSleeping, staleLoading,
                   executionState, runningFeatureIds, savesInFlight, clearsInFlight, stopPc, reg, gaps,
                   lfstatus, lfoutput, atRestart, withContext, failuresInRow,
                   pausedEmitted>>
    /\ UNCHANGED <<schedVars, lifeVars, runVars, planVars, metricsVars>>

\* resumeInterruptedFeatures: the next resumeFeature, whose error is caught.
ResumeNextFeature ==
    /\ resumePc = "next"
    /\ IF resumeQueue = << >>
       THEN /\ resumePc' = "done"
            /\ UNCHANGED <<resumeQueue, gaps>>
       ELSE IF Head(resumeQueue) \in Registered
       THEN /\ resumeQueue' = Tail(resumeQueue)
            /\ UNCHANGED <<resumePc, gaps>>
       ELSE /\ gaps[Head(resumeQueue)] < MaxGaps
            /\ gaps' = [gaps EXCEPT ![Head(resumeQueue)] = @ + 1]
            /\ resumePc' = "waiting"
            /\ UNCHANGED resumeQueue
    /\ UNCHANGED <<autoLoopRunning, autoLoopAbortController, maxConcurrency, sleeping, loading,
                   staleSleeping, staleLoading,
                   executionState, runningFeatureIds, savesInFlight, clearsInFlight, stopPc, reg, lfstatus,
                   lfoutput, atRestart, withContext, failuresInRow, pausedEmitted>>
    /\ UNCHANGED <<schedVars, lifeVars, runVars, planVars, metricsVars>>

\* The features a process finds on disk: each with a status and with or
\* without agent output (a pipeline step has run after the agent wrote).
FeaturesOnDisk(statuses) ==
    \E st \in [LoopFeatures -> statuses], out \in [LoopFeatures -> BOOLEAN] :
        /\ \A f \in LoopFeatures : st[f] = "pipeline_step" => out[f]
        /\ lfstatus = st
        /\ lfoutput = out
        /\ atRestart = [f \in LoopFeatures |-> [status |-> st[f], output |-> out[f]]]

\* Nothing in memory, every feature in the backlog.
LoopInit ==
    /\ NothingScheduled
    /\ NothingRunning
    /\ contextExists = [f \in Features |-> FALSE]
    /\ fstatus = [f \in Features |-> "backlog"]
    /\ NoRun
    /\ NoPlanSpecUpdate
    /\ NoMetricsRun
    /\ LoopIdle
    /\ FeaturesOnDisk({"backlog"})

\* The auto loop with the user starting and stopping it.
LoopNext ==
    \/ \E cap \in 1..MaxConcurrency : StartAutoLoop(cap)
    \/ \E stale \in BOOLEAN : RunAutoLoopIterates(stale)
    \/ \E stale \in BOOLEAN : LoadPendingFeaturesReturns(stale)
    \/ \E f \in LoopFeatures : ExecuteFeatureContextChecked(f)
    \/ \E f \in LoopFeatures, stepExists \in BOOLEAN : ResumeFeatureDispatches(f, stepExists)
    \/ \E f \in LoopFeatures, res \in {"success", "gate_failure", "error"}, fatal \in BOOLEAN, wrote \in BOOLEAN :
          ExecuteFeatureEnds(f, res, fatal, wrote)
    \/ StopAutoLoop
    \/ StopAutoLoopCleared
    \/ ClearExecutionState
    \/ SaveExecutionState

SpecLoop == LoopInit /\ [][LoopNext]_vars

\* The process has just started after a crash: nothing in memory, every
\* feature with the status and the output the last process left on disk.
RestartInit ==
    /\ NothingScheduled
    /\ NothingRunning
    /\ contextExists = [f \in Features |-> FALSE]
    /\ fstatus = [f \in Features |-> "backlog"]
    /\ NoRun
    /\ NoPlanSpecUpdate
    /\ NoMetricsRun
    /\ LoopIdle
    /\ FeaturesOnDisk({"backlog", "in_progress", "pipeline_step"})

\* The resume of the interrupted features next to the auto loop.
RestartNext ==
    \/ ResumeInterruptedFeatures
    \/ ResumeNextFeature
    \/ \E cap \in 1..MaxConcurrency : StartAutoLoop(cap)
    \/ \E stale \in BOOLEAN : RunAutoLoopIterates(stale)
    \/ \E stale \in BOOLEAN : LoadPendingFeaturesReturns(stale)
    \/ \E f \in LoopFeatures : ExecuteFeatureContextChecked(f)
    \/ \E f \in LoopFeatures, stepExists \in BOOLEAN : ResumeFeatureDispatches(f, stepExists)
    \/ \E f \in LoopFeatures : ResumeFromPipelineStepFails(f)
    \/ \E f \in LoopFeatures, res \in {"success", "gate_failure", "error"}, fatal \in BOOLEAN, wrote \in BOOLEAN :
          ExecuteFeatureEnds(f, res, fatal, wrote)
    \/ ClearExecutionState
    \/ SaveExecutionState

SpecRestart == RestartInit /\ [][RestartNext]_vars

C23_RestartedFromZero ==
    [][(\E stale \in BOOLEAN : LoadPendingFeaturesReturns(stale)) =>
          \A f \in LoopFeatures :
              (/\ atRestart[f].status = "in_progress"
               /\ ~atRestart[f].output
               /\ lfstatus[f] = "in_progress"
               /\ reg[f] = "none"
               /\ gaps[f] = 0) => f \in PendingFeatures]_vars

\* C25 (as claimed): once three features have failed in a row inside the
\* failure window since the loop was started, the auto loop is stopped and
\* auto_mode_paused_failures has been emitted.
C25_ThreeFailuresPause ==
    failuresInRow >= CONSECUTIVE_FAILURE_THRESHOLD => ~autoLoopRunning /\ pausedEmitted

\* C26 (as claimed): the pause is signalled only by a fatal error category or
\* by the third failure in a row since the last feature success, so that
\* two failures, a success and two failures do not signal it.
C26_SuccessResetsCounter ==
    [][(~pausedEmitted /\ pausedEmitted') =>
          \/ failuresInRow' >= CONSECUTIVE_FAILURE_THRESHOLD
          \/ \E f \in LoopFeatures, wrote \in BOOLEAN : ExecuteFeatureEnds(f, "error", TRUE, wrote)]_vars

\* C27 (as claimed): with every run started by the auto loop, the loop starts
\* a feature only while fewer features than the cap are being orchestrated
\* (a run has started for them and not ended), and the features being
\* orchestrated never exceed the cap.
C27_CapRespected ==
    /\ [](maxConcurrency # 0 =>
             Cardinality({f \in LoopFeatures : reg[f] # "none" \/ gaps[f] > 0})
                 <= maxConcurrency)
    /\ [][((\E stale \in BOOLEAN : LoadPendingFeaturesReturns(stale))
              /\ Registered' # Registered) =>
             Cardinality({f \in LoopFeatures : reg[f] # "none" \/ gaps[f] > 0})
                 < maxConcurrency]_vars

\* C28 (as claimed): at most one invocation of runAutoLoop is current, and
\* an invocation made before the last startAutoLoop passes the loop condition
\* no more: it begins no further iteration.
C28_SingleLoop ==
    /\ [](sleeping + loading <= 1)
    /\ [][~(RunAutoLoopIterates(TRUE) /\ staleLoading' > staleLoading)]_vars

\* C30 (as claimed): once the user's stopAutoLoop has completed and until the
\* next startAutoLoop, no execution state file is on disk.
C30_NoSnapshotAfterStop == stopPc = "stopped" => ~executionState

\* C33 (as claimed): while the auto loop is active, the snapshot exists and
\* no write or removal of the snapshot is under way, the snapshot's
\* runningFeatureIds are exactly the ids in the registry.
C33_SnapshotMatchesRegistry ==
    (/\ autoLoopRunning
     /\ executionState
     /\ ~savesInFlight
     /\ ~clearsInFlight
     /\ stopPc # "clearing"
     /\ \A f \in LoopFeatures : reg[f] # "saving")
        => runningFeatureIds = Registered

\* C32 (as claimed): while the auto loop is stopped (by stopAutoLoop or by the
\* pause after failures) and has not been started again, no loop iteration
\* starts a feature.
C32_StoppedLoopStartsNothing ==
    [][~autoLoopRunning =>
          \A f \in LoopFeatures : reg[f] = "none" => reg'[f] # "saving"]_vars

\* ------------------------------------------------------------------------
\* PART 5: updatePlanSpecWithRetry called concurrently for one feature, each
\* call with an update of its own.
\* ------------------------------------------------------------------------

\* maxRetries.
MaxRetries == 5

\* The first readFile of an attempt.
PlanSpecRead(w) ==
    /\ upc[w] = "idle"
    /\ ureturn[w] = "none"
    /\ uread' = [uread EXCEPT ![w] = [taskStateVersion |-> psVersion, updates |-> psUpdates]]
    /\ upc' = [upc EXCEPT ![w] = "read"]
    /\ UNCHANGED <<psVersion, psUpdates, uattempt, ureturn, statusWriter, planContent,
                   planVersion, planTasks, agent>>
    /\ UNCHANGED <<schedVars, lifeVars, runVars, loopVars, metricsVars>>

\* writeFile: the planSpec that was read, with the update applied and the
\* version it had plus one, replaces the file.
PlanSpecWritten(w) ==
    /\ upc[w] = "read"
    /\ psVersion' = uread[w].taskStateVersion + 1
    /\ psUpdates' = uread[w].updates \cup {w}
    /\ upc' = [upc EXCEPT ![w] = "written"]
    /\ UNCHANGED <<uread, uattempt, ureturn, statusWriter, planContent, planVersion,
                   planTasks, agent>>
    /\ UNCHANGED <<schedVars, lifeVars, runVars, loopVars, metricsVars>>

\* The second readFile: the call returns the planSpec it wrote if the file
\* holds the version it wrote, else it tries again, and returns null after
\* maxRetries attempts.
PlanSpecVerified(w) ==
    /\ upc[w] = "written"
    /\ IF psVersion = uread[w].taskStateVersion + 1
       THEN /\ ureturn' = [ureturn EXCEPT ![w] = "nextPlanSpec"]
            /\ upc' = [upc EXCEPT ![w] = "idle"]
            /\ UNCHANGED uattempt
       ELSE /\ uattempt' = [uattempt EXCEPT ![w] = @ + 1]
            /\ upc' = [upc EXCEPT ![w] = "idle"]
            /\ ureturn' = [ureturn EXCEPT ![w] =
                              IF uattempt[w] + 1 < MaxRetries THEN "none" ELSE "null"]
    /\ UNCHANGED <<psVersion, psUpdates, uread, statusWriter, planContent, planVersion,
                   planTasks, agent>>
    /\ UNCHANGED <<schedVars, lifeVars, runVars, loopVars, metricsVars>>

\* updateFeatureStatus: readFile and JSON.parse of the whole feature.
UpdateFeatureStatusRead ==
    /\ statusWriter.pc = "idle"
    /\ statusWriter' = [pc |-> "read", taskStateVersion |-> psVersion, updates |-> psUpdates]
    /\ UNCHANGED <<psVersion, psUpdates, upc, uread, uattempt, ureturn, planContent,
                   planVersion, planTasks, agent>>
    /\ UNCHANGED <<schedVars, lifeVars, runVars, loopVars, metricsVars>>

\* updateFeatureStatus: writeFile of the feature that was read, with the new
\* status; its planSpec is the one that was read.
UpdateFeatureStatusWritten ==
    /\ statusWriter.pc = "read"
    /\ psVersion' = statusWriter.taskStateVersion
    /\ psUpdates' = statusWriter.updates
    /\ statusWriter' = [pc |-> "idle", taskStateVersion |-> 0, updates |-> {}]
    /\ UNCHANGED <<upc, uread, uattempt, ureturn, planContent, planVersion, planTasks,
                   agent>>
    /\ UNCHANGED <<schedVars, lifeVars, runVars, loopVars, metricsVars>>

PlanSpecInit ==
    /\ NothingScheduled
    /\ NothingRunning
    /\ contextExists = [f \in Features |-> FALSE]
    /\ fstatus = [f \in Features |-> "backlog"]
    /\ NoRun
    /\ NoLoop
    /\ NoPlanSpecUpdate
    /\ NoMetricsRun

PlanSpecNext ==
    \/ \E w \in 1..MaxWriters : PlanSpecRead(w)
    \/ \E w \in 1..MaxWriters : PlanSpecWritten(w)
    \/ \E w \in 1..MaxWriters : PlanSpecVerified(w)
    \/ UpdateFeatureStatusRead
    \/ UpdateFeatureStatusWritten

SpecPlanSpec == PlanSpecInit /\ [][PlanSpecNext]_vars

\* C29 (as claimed): whenever a call of updatePlanSpecWithRetry has returned
\* the planSpec it wrote, the planSpec on disk contains that writer's update.
C29_LostUpdateDetected ==
    \A w \in 1..MaxWriters : ureturn[w] = "nextPlanSpec" => w \in psUpdates

\* C34 (as claimed): no write of the feature record lowers the persisted
\* planSpec.taskStateVersion.
C34_TaskStateVersionMonotonic == [][psVersion' >= psVersion]_vars

\* ------------------------------------------------------------------------
\* PART 6: the plan's content from its generation to the implementation:
\* runAgent's approval loop, resolvePlanApproval and updateFeaturePlanSpec.
\* A plan text is the sequence of its lines: "intro" is prose, a task id
\* stands for the task line "- [ ] T###: ..." of the tasks block.  The plans
\* are small, so shouldRefineTasks is false.
\* ------------------------------------------------------------------------

PlanTexts == {<<"intro">>, <<"intro", "T001">>, <<"intro", "T001", "T002">>}

\* parseTasksFromSpec: the task lines of the text, in order.
parseTasksFromSpec(specContent) ==
    SelectSeq(specContent, LAMBDA line : line \in {"T001", "T002", "T003"})

\* updates.content && updates.content !== feature.planSpec.content, which
\* updateFeaturePlanSpec evaluates after Object.assign(feature.planSpec, updates).
ContentIsNew(u, content) ==
    "content" \in DOMAIN u /\ u.content # Undefined /\ u.content # content

\* updateFeaturePlanSpec(updates): a missing planSpec is created with version
\* 1, the keys of updates are assigned (a key holding undefined included),
\* the version is incremented for new content, taskStateVersion for a task
\* update, and the feature is written.
UpdateFeaturePlanSpec(u) ==
    /\ planContent' = IF "content" \in DOMAIN u THEN u.content ELSE planContent
    /\ planVersion' =
          LET assigned == IF "version" \in DOMAIN u THEN u.version
                          ELSE IF planVersion = 0 THEN 1 ELSE planVersion
          IN  IF ContentIsNew(u, planContent') THEN assigned + 1 ELSE assigned
    /\ planTasks' = IF "tasks" \in DOMAIN u THEN u.tasks ELSE planTasks
    /\ psVersion' = IF "tasks" \in DOMAIN u THEN psVersion + 1 ELSE psVersion

\* runAgent has detected [SPEC_GENERATED] (after qualityRevisionCount plan
\* quality revisions): the tasks are parsed, the plan is persisted and the
\* run registers a waiter and awaits the approval.
PlanGenerated(text, qualityRevisionCount) ==
    /\ agent.pc = "idle"
    /\ UpdateFeaturePlanSpec([content |-> text, version |-> 1 + qualityRevisionCount,
                              tasks |-> parseTasksFromSpec(text)])
    /\ agent' = [agent EXCEPT !.pc = "approval",
                              !.currentPlanContent = text,
                              !.approvedPlanContent = text,
                              !.parsedTasks = parseTasksFromSpec(text),
                              !.planVersion = 1 + qualityRevisionCount]
    /\ UNCHANGED <<psUpdates, upc, uread, uattempt, ureturn, statusWriter>>
    /\ UNCHANGED <<schedVars, lifeVars, runVars, loopVars, metricsVars>>

\* resolvePlanApproval(featureId, approved, editedPlan, feedback) with a
\* pending waiter: the planSpec is updated with content: editedPlan and the
\* waiter is resolved.
ResolvePlanApproval(approved, editedPlan, feedback) ==
    /\ agent.pc = "approval"
    /\ UpdateFeaturePlanSpec([content |-> editedPlan])
    /\ agent' = [agent EXCEPT !.pc = "resolved",
                              !.approved = approved,
                              !.editedPlan = editedPlan,
                              !.feedback = feedback]
    /\ UNCHANGED <<psUpdates, upc, uread, uattempt, ureturn, statusWriter>>
    /\ UNCHANGED <<schedVars, lifeVars, runVars, loopVars, metricsVars>>

\* The approval loop after its await: an approval ends the loop (an edited
\* plan becomes approvedPlanContent and is persisted), a rejection without
\* feedback and edits cancels, any other rejection asks for a revision.
ApprovalHandled ==
    /\ agent.pc = "resolved"
    /\ IF agent.approved
       THEN IF agent.editedPlan # Undefined
            THEN /\ UpdateFeaturePlanSpec([content |-> agent.editedPlan])
                 /\ agent' = [agent EXCEPT !.pc = "approved",
                                           !.approvedPlanContent = agent.editedPlan]
            ELSE /\ agent' = [agent EXCEPT !.pc = "approved",
                                           !.approvedPlanContent = agent.currentPlanContent]
                 /\ UNCHANGED <<planContent, planVersion, planTasks, psVersion>>
       ELSE IF ~agent.feedback /\ agent.editedPlan = Undefined
            THEN /\ agent' = [agent EXCEPT !.pc = "cancelled"]
                 /\ UNCHANGED <<planContent, planVersion, planTasks, psVersion>>
            ELSE /\ agent.planVersion <= MaxFeedbackRejections
                 /\ UpdateFeaturePlanSpec([version |-> agent.planVersion + 1])
                 /\ agent' = [agent EXCEPT !.pc = "revising",
                                           !.planVersion = agent.planVersion + 1]
    /\ UNCHANGED <<psUpdates, upc, uread, uattempt, ureturn, statusWriter>>
    /\ UNCHANGED <<schedVars, lifeVars, runVars, loopVars, metricsVars>>

\* The revision call has produced the next plan: its tasks are parsed, it is
\* persisted with the version of this round, and the loop waits again.
PlanRevised(text) ==
    /\ agent.pc = "revising"
    /\ UpdateFeaturePlanSpec([content |-> text, version |-> agent.planVersion,
                              tasks |-> parseTasksFromSpec(text)])
    /\ agent' = [agent EXCEPT !.pc = "approval",
                              !.currentPlanContent = text,
                              !.parsedTasks = parseTasksFromSpec(text)]
    /\ UNCHANGED <<psUpdates, upc, uread, uattempt, ureturn, statusWriter>>
    /\ UNCHANGED <<schedVars, lifeVars, runVars, loopVars, metricsVars>>

\* After the loop: the planSpec is marked approved and, when tasks were
\* parsed, parsedTasks go to executeTasksWithDependencies with
\* approvedPlanContent; otherwise one agent call implements the plan.
ImplementationStarts ==
    /\ agent.pc = "approved"
    /\ UpdateFeaturePlanSpec([status |-> "approved"])
    /\ agent' = [agent EXCEPT !.pc = IF agent.parsedTasks # <<>> THEN "tasks" ELSE "single",
                              !.tasks = agent.parsedTasks]
    /\ UNCHANGED <<psUpdates, upc, uread, uattempt, ureturn, statusWriter>>
    /\ UNCHANGED <<schedVars, lifeVars, runVars, loopVars, metricsVars>>

PlanApprovalInit == PlanSpecInit

PlanApprovalNext ==
    \/ \E text \in PlanTexts, qualityRevisionCount \in 0..1 :
            PlanGenerated(text, qualityRevisionCount)
    \/ \E approved \in BOOLEAN, editedPlan \in PlanTexts \cup {Undefined}, feedback \in BOOLEAN :
            ResolvePlanApproval(approved, editedPlan, feedback)
    \/ ApprovalHandled
    \/ \E text \in PlanTexts : PlanRevised(text)
    \/ ImplementationStarts

SpecPlanApproval == PlanApprovalInit /\ [][PlanApprovalNext]_vars

\* C35 (as claimed): a write that replaces the persisted plan content with a
\* different content increases planSpec.version (the write of a revised plan
\* apart, whose version was raised when the revision was requested).
C35_ContentReplacementRaisesVersion ==
    [][(/\ planContent # Undefined
        /\ planContent' # Undefined
        /\ planContent' # planContent
        /\ ~\E text \in PlanTexts : PlanRevised(text))
            => planVersion' > planVersion]_vars

\* C36 (as claimed): after an approval with an edited plan, the tasks handed
\* to the scheduler and the tasks persisted in the planSpec are the tasks
\* parsed from the edited plan.
C36_EditedPlanDrivesTasks ==
    (agent.pc = "tasks" /\ agent.editedPlan # Undefined) =>
        /\ agent.tasks = parseTasksFromSpec(agent.editedPlan)
        /\ planTasks = parseTasksFromSpec(agent.editedPlan)

\* C40 (as claimed): resolvePlanApproval without an edited plan, approving
\* or rejecting, leaves the persisted plan content as it was.
C40_NoEditsKeepContent ==
    [][(\E approved \in BOOLEAN, feedback \in BOOLEAN :
            ResolvePlanApproval(approved, Undefined, feedback))
            => planContent' = planContent]_vars

\* ------------------------------------------------------------------------
\* PART 7: the metrics store.  Each feature run opens a MetricsRun
\* (startMetricsRun), updates it while it works and closes it with a status
\* (updateMetricsRun); every one of these goes through updateMetricsStore.
\* ------------------------------------------------------------------------

\* updateMetricsStore up to its await of saveMetricsStore: the cached store
\* is loaded and copied ({...current, runs: [...current.runs]}) and the
\* updater is applied to the copy.
\* startMetricsRun: the updater pushes a new record with status running.
StartMetricsRun(r) ==
    /\ mpc[r] = "idle"
    /\ runStatus' = [runStatus EXCEPT ![r] = "running"]
    /\ mupdated' = [mupdated EXCEPT ![r] = metricsByProject \cup {r}]
    /\ mpc' = [mpc EXCEPT ![r] = "starting"]
    /\ UNCHANGED <<metricsByProject, metricsFile>>
    /\ UNCHANGED <<schedVars, lifeVars, runVars, loopVars, planVars>>

\* updateMetricsRun: the updater looks the record up by runId in the copy
\* and, if it is there, changes it in place.  st is the status the updater
\* sets: success or failed when the run ends, running for an update on the way.
UpdateMetricsRun(r, st) ==
    /\ mpc[r] = "open"
    /\ runStatus' = [runStatus EXCEPT ![r] = IF r \in metricsByProject THEN st ELSE @]
    /\ mupdated' = [mupdated EXCEPT ![r] = metricsByProject]
    /\ mpc' = [mpc EXCEPT ![r] = IF st = "running" THEN "updating" ELSE "closing"]
    /\ UNCHANGED <<metricsByProject, metricsFile>>
    /\ UNCHANGED <<schedVars, lifeVars, runVars, loopVars, planVars>>

\* updateMetricsStore after saveMetricsStore: the copy is written to the file
\* and then becomes the cached store.
MetricsStoreSaved(r) ==
    /\ mpc[r] \in {"starting", "updating", "closing"}
    /\ metricsFile' = [x \in 1..MaxRuns |-> IF x \in mupdated[r] THEN runStatus[x] ELSE "none"]
    /\ metricsByProject' = mupdated[r]
    /\ mpc' = [mpc EXCEPT ![r] = IF @ = "closing" THEN "closed" ELSE "open"]
    /\ mupdated' = [mupdated EXCEPT ![r] = {}]
    /\ UNCHANGED runStatus
    /\ UNCHANGED <<schedVars, lifeVars, runVars, loopVars, planVars>>

MetricsInit == PlanSpecInit

MetricsNext ==
    \/ \E r \in 1..MaxRuns : StartMetricsRun(r)
    \/ \E r \in 1..MaxRuns, st \in {"running", "success", "failed"} : UpdateMetricsRun(r, st)
    \/ \E r \in 1..MaxRuns : MetricsStoreSaved(r)

SpecMetrics == MetricsInit /\ [][MetricsNext]_vars

\* C37 (as claimed): whenever no write of the store is under way, every run
\* that has opened a MetricsRun has its record in the store, in memory and
\* in the file, and the record of a run that has ended has status success or
\* failed.
C37_OneRecordPerRun ==
    (\A q \in 1..MaxRuns : mpc[q] \in {"idle", "open", "closed"}) =>
        \A r \in 1..MaxRuns :
            /\ mpc[r] \in {"open", "closed"} =>
                  r \in metricsByProject /\ metricsFile[r] # "none"
            /\ mpc[r] = "closed" =>
                  runStatus[r] \in {"success", "failed"} /\ metricsFile[r] = runStatus[r]

====
